---- MODULE Spec2Model ----
(***************************************************************************)
(* Transaction manager of pysdbd: the nested (reference counted) mode of   *)
(* MysqlDriver, the timeout mode of SqliteDriver and the TransactionCM     *)
(* context manager, over an abstract engine connection.                    *)
(***************************************************************************)
EXTENDS Integers, Sequences, FiniteSets, TLC

\* ------------------------------------------------------------------ bounds
\* Longest sequence of driver calls made on the nested-mode connection.
MaxCalls == 7

\* ------------------------------------------------------------ exceptions
\* What a driver call hands back to its caller: NoExc on a normal return,
\* otherwise the exception that escapes the call.
NoExc == "none"
\* Error("Transaction was commited despite previous rollback in nested transaction")
StickyError == "Error: commited despite previous rollback in nested transaction"
\* "Transaction already in progress" raised by con.start_transaction(); in the
\* nested branch the handler names sqlite3.Error, which MysqlDriver.py never
\* imports, so the exception that escapes is a NameError.
BeginError == "NameError: sqlite3"
QueryError == "QueryError"
\* Error("Failed to start transaction (timeout=3s): Transaction already in progress")
StartTimeoutError == "Error: Failed to start transaction (timeout=3s)"
\* exc_buf.args read while exc_buf is still None.
NoAttemptError == "AttributeError: 'NoneType' object has no attribute 'args'"
\* An exception raised by the caller's own code inside a with block.
BodyError == "ValueError"

\* --------------------------------------------------------------- the state
VARIABLES
    nested_transactions, \* Driver attribute: nested mode selected
    transaction_cnt,     \* Driver attribute: nesting depth
    nested_rollback,     \* Driver attribute: sticky rollback flag
    con,                 \* engine connection: [in_transaction, pending]
    table,               \* rows the engine has committed
    last,                \* the last driver call: what it was given, issued, raised
    trace,               \* the driver calls made so far, oldest first
    scope,               \* bookkeeping of the current outermost scope
    thread,              \* timeout mode: each caller's position in its calls
    cm,                  \* the with blocks of TransactionCM that are open
    cond,                \* the predicate tree a caller has built
    ret,                 \* what the last call on the predicate tree returned
    db,                  \* the engine's table behind a Table object
    call                 \* the last call on the Table object

vars == <<nested_transactions, transaction_cnt, nested_rollback, con, table,
          last, trace, scope, thread, cm, cond, ret, db, call>>

\* The variables of the query layer, which no driver call touches.
queryVars == <<cond, ret, db, call>>

\* No predicate has been built.
\* No Table object has been set up.
TableIdle ==
    /\ db = <<>>
    /\ call = <<>>

QueryIdle ==
    /\ cond = <<>>
    /\ ret = <<>>
    /\ TableIdle

\* A world is the driver and engine state one call works on, together with
\* the engine commands the call has issued so far and the exception escaping.
World ==
    [transaction_cnt |-> transaction_cnt,
     nested_rollback |-> nested_rollback,
     in_transaction  |-> con.in_transaction,
     pending         |-> con.pending,
     table           |-> table,
     issued          |-> <<>>,
     raised          |-> NoExc]

\* ------------------------------------------------- the engine (connection)
\* con.start_transaction(): refused while the connection has a transaction.
con_start_transaction(w) ==
    IF w.in_transaction
    THEN [w EXCEPT !.issued = Append(@, "BEGIN_REFUSED"), !.raised = BeginError]
    ELSE [w EXCEPT !.issued = Append(@, "BEGIN"), !.in_transaction = TRUE]

\* con.commit(): the pending rows become persistent.
con_commit(w) ==
    [w EXCEPT !.issued = Append(@, "COMMIT"),
              !.table = @ \cup w.pending,
              !.pending = {},
              !.in_transaction = FALSE]

\* con.rollback(): the pending rows are dropped.
con_rollback(w) ==
    [w EXCEPT !.issued = Append(@, "ROLLBACK"),
              !.pending = {},
              !.in_transaction = FALSE]

\* cursor.execute of a writing statement on the MySQL connection, which runs
\* with autocommit = False: a statement met outside a transaction opens one.
cursor_execute(w, row) ==
    [w EXCEPT !.issued = Append(@, "EXEC"),
              !.pending = @ \cup {row},
              !.in_transaction = TRUE]

\* ------------------------------------------------------------ MysqlDriver
\* start_transaction with the reset of nested_rollback moved out of the
\* test transaction_cnt == 0: every start clears the flag.
MysqlDriver_start_transaction_clears(w, late) ==
    IF nested_transactions
    THEN LET w1 == [w EXCEPT !.nested_rollback = FALSE]
         IN  IF w.transaction_cnt = 0
             THEN LET w2 == con_start_transaction(w1)
                  IN  IF w2.raised # NoExc
                      THEN w2
                      ELSE [w2 EXCEPT !.transaction_cnt = @ + 1]
             ELSE [w1 EXCEPT !.transaction_cnt = @ + 1]
    ELSE IF late
         THEN [w EXCEPT !.raised = NoAttemptError]
         ELSE LET w1 == con_start_transaction(w)
              IN  IF w1.raised # NoExc
                  THEN [w1 EXCEPT !.raised = StartTimeoutError]
                  ELSE w1

\* start_transaction. In the timeout branch the handle has one caller, so
\* nothing ends an open transaction while the loop waits: every attempt gets
\* the answer of the first, and the loop ends by the timeout. late says that
\* the timeout had passed before the loop made its first test.
MysqlDriver_start_transaction(w, late) ==
    IF nested_transactions
    THEN IF w.transaction_cnt = 0
         THEN LET w1 == [w EXCEPT !.nested_rollback = FALSE]
                  w2 == con_start_transaction(w1)
              IN  IF w2.raised # NoExc
                  THEN w2
                  ELSE [w2 EXCEPT !.transaction_cnt = @ + 1]
         ELSE [w EXCEPT !.transaction_cnt = @ + 1]
    ELSE IF late
         THEN [w EXCEPT !.raised = NoAttemptError]
         ELSE LET w1 == con_start_transaction(w)
              IN  IF w1.raised # NoExc
                  THEN [w1 EXCEPT !.raised = StartTimeoutError]
                  ELSE w1

\* rollback without the test transaction_cnt == 1: the engine rollback is
\* issued at every depth.
MysqlDriver_rollback_every_depth(w) ==
    IF nested_transactions
    THEN LET w1 == [w EXCEPT !.nested_rollback = TRUE]
             w2 == con_rollback(w1)
         IN  [w2 EXCEPT !.transaction_cnt = @ - 1]
    ELSE con_rollback(w)

MysqlDriver_rollback(w) ==
    IF nested_transactions
    THEN LET w1 == [w EXCEPT !.nested_rollback = TRUE]
             w2 == IF w1.transaction_cnt = 1 THEN con_rollback(w1) ELSE w1
         IN  [w2 EXCEPT !.transaction_cnt = @ - 1]
    ELSE con_rollback(w)

\* commit without the test of nested_rollback: the outermost commit always
\* reaches the engine.
MysqlDriver_commit_unvetoed(w) ==
    IF nested_transactions
    THEN IF w.transaction_cnt = 1
         THEN LET w1 == con_commit(w)
              IN  [w1 EXCEPT !.transaction_cnt = @ - 1]
         ELSE [w EXCEPT !.transaction_cnt = @ - 1]
    ELSE con_commit(w)

\* commit with transaction_cnt >= 1 for transaction_cnt == 1: an inner commit
\* reaches the engine too.
MysqlDriver_commit_every_depth(w) ==
    IF nested_transactions
    THEN IF w.transaction_cnt >= 1
         THEN IF w.nested_rollback
              THEN LET w1 == MysqlDriver_rollback(w)
                   IN  [w1 EXCEPT !.transaction_cnt = @ - 1,
                                  !.raised = StickyError]
              ELSE LET w1 == con_commit(w)
                   IN  [w1 EXCEPT !.transaction_cnt = @ - 1]
         ELSE [w EXCEPT !.transaction_cnt = @ - 1]
    ELSE con_commit(w)

MysqlDriver_commit(w) ==
    IF nested_transactions
    THEN IF w.transaction_cnt = 1
         THEN IF w.nested_rollback
              THEN LET w1 == MysqlDriver_rollback(w)
                   IN  [w1 EXCEPT !.transaction_cnt = @ - 1,
                                  !.raised = StickyError]
              ELSE LET w1 == con_commit(w)
                   IN  [w1 EXCEPT !.transaction_cnt = @ - 1]
         ELSE [w EXCEPT !.transaction_cnt = @ - 1]
    ELSE con_commit(w)

\* execute of one writing statement; ok says whether the engine accepts it.
MysqlDriver_execute(w, row, ok, late) ==
    LET autotrans == ~w.in_transaction
        w1 == IF autotrans THEN MysqlDriver_start_transaction(w, late) ELSE w
    IN  IF w1.raised # NoExc
        THEN w1
        ELSE IF ~ok
        THEN [w1 EXCEPT !.issued = Append(@, "EXEC_FAILED"), !.raised = QueryError]
        ELSE LET w2 == cursor_execute(w1, row)
             IN  IF autotrans /\ w2.in_transaction
                 THEN MysqlDriver_commit(w2)
                 ELSE w2

\* ------------------------------------------------------------ bookkeeping
\* The outermost scope runs from the start that takes transaction_cnt from
\* 0 to 1 until the call that takes it below 1 again.
ScopeAfter(op, w0, w1) ==
    LET opened == w0.transaction_cnt = 0 /\ w1.transaction_cnt = 1
        closed == w0.transaction_cnt = 1 /\ w1.transaction_cnt < 1
        inside == scope.open \/ opened
    IN  [open     |-> IF closed THEN FALSE ELSE inside,
         rollback |-> IF opened THEN FALSE
                      ELSE IF inside /\ op = "rollback" THEN TRUE
                      ELSE scope.rollback,
         closed   |-> closed /\ scope.open,
         depth    |-> IF op = "start" /\ w1.raised = NoExc THEN scope.depth + 1
                      ELSE IF op \in {"commit", "rollback"} THEN scope.depth - 1
                      ELSE scope.depth,
         balanced |-> scope.balanced
                      /\ (op \in {"commit", "rollback"} => scope.depth >= 1)]

Apply(op, w1) ==
    /\ transaction_cnt' = w1.transaction_cnt
    /\ nested_rollback' = w1.nested_rollback
    /\ con' = [in_transaction |-> w1.in_transaction, pending |-> w1.pending]
    /\ table' = w1.table
    /\ last' = [op |-> op, before |-> World, inside |-> scope,
                issued |-> w1.issued, raised |-> w1.raised]
    /\ trace' = Append(trace, op)
    /\ scope' = ScopeAfter(op, World, w1)
    /\ UNCHANGED <<nested_transactions, thread>>
    /\ UNCHANGED queryVars

NoCM == [depth |-> 0, exc |-> NoExc,
         last |-> [event |-> "none", calls |-> <<>>, exc_in |-> NoExc,
                   exc_out |-> NoExc]]

\* ------------------------------------------------------------------ actions
Start ==
    /\ nested_transactions
    /\ last.op # "close"
    /\ Len(trace) < MaxCalls
    /\ Apply("start", MysqlDriver_start_transaction(World, FALSE))
    /\ UNCHANGED cm

Commit ==
    /\ nested_transactions
    /\ last.op # "close"
    /\ Len(trace) < MaxCalls
    /\ Apply("commit", MysqlDriver_commit(World))
    /\ UNCHANGED cm

Rollback ==
    /\ nested_transactions
    /\ last.op # "close"
    /\ Len(trace) < MaxCalls
    /\ Apply("rollback", MysqlDriver_rollback(World))
    /\ UNCHANGED cm

Execute ==
    /\ nested_transactions
    /\ last.op # "close"
    /\ Len(trace) < MaxCalls
    /\ \E ok \in BOOLEAN :
          Apply(IF ok THEN "execute" ELSE "execute_failed",
                MysqlDriver_execute(World, Len(trace) + 1, ok, FALSE))
    /\ UNCHANGED cm

\* The transaction state of a fresh connection handle.
InitTransactionState ==
    /\ transaction_cnt = 0
    /\ nested_rollback = FALSE

InitNested ==
    /\ nested_transactions = TRUE
    /\ InitTransactionState
    /\ con = [in_transaction |-> FALSE, pending |-> {}]
    /\ table = {}
    /\ scope = [open |-> FALSE, rollback |-> FALSE, closed |-> FALSE,
                depth |-> 0, balanced |-> TRUE]
    /\ last = [op |-> "new", before |-> World, inside |-> scope,
               issued |-> <<>>, raised |-> NoExc]
    /\ trace = <<>>
    /\ thread = <<>>
    /\ cm = NoCM
    /\ QueryIdle

NextNested == Start \/ Commit \/ Rollback \/ Execute

SpecNested == InitNested /\ [][NextNested]_vars

\* ------------------------------------------------ claims on the nested mode
Issued(cmd) == \E i \in 1..Len(last.issued) : last.issued[i] = cmd

\* C1: in nested mode a commit at transaction_cnt = 1 issues the engine commit
\* exactly when nested_rollback is false; when it is true the call issues an
\* engine rollback, no engine commit, and raises the "commited despite previous
\* rollback" Error. A commit at transaction_cnt > 1 issues nothing to the engine
\* and only decrements transaction_cnt.
C1_CommitOutermost ==
    last.op = "commit" =>
        LET b == last.before
        IN  /\ (b.transaction_cnt = 1 /\ ~b.nested_rollback) =>
                 /\ last.issued = <<"COMMIT">>
                 /\ last.raised = NoExc
            /\ (b.transaction_cnt = 1 /\ b.nested_rollback) =>
                 /\ last.issued = <<"ROLLBACK">>
                 /\ last.raised = StickyError
            /\ b.transaction_cnt > 1 =>
                 /\ last.issued = <<>>
                 /\ last.raised = NoExc
                 /\ transaction_cnt = b.transaction_cnt - 1
                 /\ nested_rollback = b.nested_rollback
                 /\ con = [in_transaction |-> b.in_transaction,
                           pending |-> b.pending]
                 /\ table = b.table

C1_Witness ==
    /\ last.op = "commit"
    /\ last.before.transaction_cnt = 1
    /\ last.before.nested_rollback
    /\ last.raised = StickyError
    /\ \E i \in 1..Len(trace) : trace[i] = "commit" /\ i < Len(trace)

\* C2: in nested mode, when rollback was called anywhere inside an outermost
\* scope (from the start taking transaction_cnt from 0 to 1 until it drops
\* below 1 again), the call that closes the scope ends the engine transaction
\* with an engine rollback, and no call inside the scope issues an engine
\* commit once rollback has been called.
C2_StickyRollback ==
    /\ (scope.closed /\ scope.rollback) =>
          (Issued("ROLLBACK") /\ ~Issued("COMMIT"))
    /\ (last.inside.open /\ last.inside.rollback) => ~Issued("COMMIT")

C2_Witness ==
    /\ scope.closed
    /\ scope.rollback
    /\ last.op = "commit"
    /\ \E i \in 1..Len(trace) : trace[i] = "rollback"
    /\ \E i \in 2..Len(trace) : trace[i - 1] = "rollback" /\ trace[i] = "start"

\* C3: in nested mode transaction_cnt is never negative as long as every
\* commit and rollback closes a scope opened by an earlier start.
C3_NeverNegative == scope.balanced => transaction_cnt >= 0

\* C4: in nested mode every start increases transaction_cnt by exactly 1; it
\* begins an engine transaction if and only if transaction_cnt was 0 before,
\* and exactly then nested_rollback is reset to false; otherwise
\* nested_rollback is unchanged and nothing is issued to the engine. Stated
\* for the callers whose every commit and rollback closes a scope they opened.
C4_Start ==
    (scope.balanced /\ last.op = "start") =>
        LET b == last.before
        IN  /\ transaction_cnt = b.transaction_cnt + 1
            /\ Issued("BEGIN") <=> b.transaction_cnt = 0
            /\ b.transaction_cnt = 0 => ~nested_rollback
            /\ b.transaction_cnt # 0 =>
                 /\ nested_rollback = b.nested_rollback
                 /\ last.issued = <<>>

\* C5: in nested mode every rollback sets nested_rollback and decrements
\* transaction_cnt by exactly 1; it issues the engine rollback if and only if
\* transaction_cnt was 1 before the call.
C5_Rollback ==
    last.op = "rollback" =>
        LET b == last.before
        IN  /\ nested_rollback
            /\ transaction_cnt = b.transaction_cnt - 1
            /\ last.raised = NoExc
            /\ Issued("ROLLBACK") <=> b.transaction_cnt = 1
            /\ last.issued \in {<<>>, <<"ROLLBACK">>}

C5_Witness ==
    /\ last.op = "rollback"
    /\ last.before.transaction_cnt = 2
    /\ ~last.before.nested_rollback
    /\ nested_rollback
    /\ last.issued = <<>>

\* The calls of the trace that are not statement executions.
TransactionCalls ==
    SelectSeq(trace, LAMBDA op : op \in {"start", "commit", "rollback"})

\* The span start; start; commit; rollback on a fresh connection, statements
\* being executed only inside it.
C6_Span ==
    /\ TransactionCalls = <<"start", "start", "commit", "rollback">>
    /\ trace[1] = "start"
    /\ trace[Len(trace)] = "rollback"

\* C6 as stated: start; start; commit; rollback from a fresh connection ends
\* with an engine rollback and the sticky-rollback Error, nothing persisted.
C6_AsStated ==
    C6_Span => (Issued("ROLLBACK") /\ last.raised = StickyError /\ table = {})

\* C6 as the code has it: start; start; commit; rollback from a fresh
\* connection ends with the outer rollback issuing the engine rollback and
\* returning normally (no Error), and no row written inside the span persists.
C6_Scenario ==
    C6_Span => (last.issued = <<"ROLLBACK">> /\ last.raised = NoExc
                /\ table = {} /\ con.pending = {} /\ ~con.in_transaction)

C6_Witness ==
    /\ C6_Span
    /\ \E i \in 1..Len(trace) : trace[i] = "execute"
    /\ table = {}

\* ------------------------------------------------ SqliteDriver, timeout mode
\* The callers share one connection handle, the transactional resource they
\* contend for: the engine refuses a begin while that connection has a
\* transaction open.
Callers == {"first", "second"}

\* Driver.transaction_timeout, in seconds.
DefaultTimeout == 3
\* time.sleep(0.1): the clock is counted in sleep intervals.
SleepTicks == 1
TicksPerSecond == 10

\* The timeout argument of start_transaction: <<>> stands for None.
TimeoutArgs == {<<>>, <<0>>, <<1>>}

\* What the engine answers to BEGIN TRANSACTION.
BeginOk == "ok"
Busy == "cannot start a transaction within a transaction"
OtherError == "disk I/O error"

\* How a start_transaction call ended: the exception raised, its message, the
\* timeout the message names, and whether the timeout had elapsed by then.
NoResult == [exc |-> NoExc, msg |-> "", named |-> <<>>, expired |-> FALSE]

IdleThread ==
    [pc |-> "idle", timeout |-> 0, elapsed |-> 0, nap |-> 0,
     exc_buf |-> "None", result |-> NoResult, wrote |-> FALSE, kept |-> FALSE]

\* The engine's answer to a begin on the connection; fault is an engine
\* failure that has nothing to do with transactions.
sqlite_begin(in_transaction, fault) ==
    IF fault THEN OtherError
    ELSE IF in_transaction THEN Busy
    ELSE BeginOk

\* A writing statement on the sqlite connection (isolation_level = None):
\* outside a transaction it is committed at once.
sqlite_execute(w, row) ==
    IF w.in_transaction
    THEN [w EXCEPT !.issued = Append(@, "EXEC"), !.pending = @ \cup {row}]
    ELSE [w EXCEPT !.issued = Append(@, "EXEC"), !.table = @ \cup {row}]

\* start_transaction up to the loop: the timeout is chosen, t0 is read.
SqliteDriver_start_enter(t, arg) ==
    [t EXCEPT !.pc = "loop",
              !.timeout = IF arg = <<>> THEN DefaultTimeout ELSE arg[1],
              !.elapsed = 0,
              !.nap = 0,
              !.exc_buf = "None",
              !.result = NoResult]

\* while time.time() < t0+timeout, elapsed being time.time() - t0 in ticks.
SqliteDriver_start_in_time(t) == t.elapsed < t.timeout * TicksPerSecond

\* The raise after the loop; exc_buf.args of None is an AttributeError.
SqliteDriver_start_raise(t) ==
    [t EXCEPT !.pc = "raised",
              !.elapsed = 0,
              !.result = IF t.exc_buf = "None"
                         THEN [exc |-> "AttributeError",
                               msg |-> "'NoneType' object has no attribute 'args'",
                               named |-> <<>>,
                               expired |-> ~SqliteDriver_start_in_time(t)]
                         ELSE [exc |-> "Error", msg |-> t.exc_buf,
                               named |-> <<t.timeout>>,
                               expired |-> ~SqliteDriver_start_in_time(t)]]

\* The except branch without the test of the message: every engine error is
\* slept on and retried.
SqliteDriver_start_except_retries(t, answer) ==
    [t EXCEPT !.exc_buf = answer, !.pc = "sleep", !.nap = SleepTicks]

\* The except branch of the loop body: sleep and retry, or break.
SqliteDriver_start_except(t, answer) ==
    LET t1 == [t EXCEPT !.exc_buf = answer]
    IN  IF answer = Busy
        THEN [t1 EXCEPT !.pc = "sleep", !.nap = SleepTicks]
        ELSE SqliteDriver_start_raise(t1)

\* The return of the loop body after a begin the engine accepted.
SqliteDriver_start_return(t) ==
    [t EXCEPT !.pc = "holding", !.elapsed = 0, !.timeout = 0,
              !.exc_buf = "None", !.wrote = FALSE]

SqliteDriver_commit(w) == con_commit(w)

SqliteDriver_rollback(w) == con_rollback(w)

SqliteDriver_execute(w, row, ok) ==
    IF ok
    THEN sqlite_execute(w, row)
    ELSE [w EXCEPT !.issued = Append(@, "EXEC_FAILED"), !.raised = QueryError]

ApplyCon(w1) ==
    /\ con' = [in_transaction |-> w1.in_transaction, pending |-> w1.pending]
    /\ table' = w1.table
    /\ UNCHANGED <<nested_transactions, transaction_cnt, nested_rollback,
                   last, trace, scope, cm>>
    /\ UNCHANGED queryVars

Waiting(t) == t.pc \in {"loop", "sleep"}

CallStart(c) ==
    /\ ~nested_transactions
    /\ thread[c].pc \in {"idle", "raised"}
    /\ \E arg \in TimeoutArgs :
          thread' = [thread EXCEPT ![c] = SqliteDriver_start_enter(@, arg)]
    /\ ApplyCon(World)

Attempt(c) ==
    /\ ~nested_transactions
    /\ thread[c].pc = "loop"
    /\ SqliteDriver_start_in_time(thread[c])
    /\ \E fault \in BOOLEAN :
          LET answer == sqlite_begin(con.in_transaction, fault)
          IN  IF answer = BeginOk
              THEN /\ thread' = [thread EXCEPT
                                   ![c] = SqliteDriver_start_return(@)]
                   /\ ApplyCon([World EXCEPT !.in_transaction = TRUE])
              ELSE /\ thread' = [thread EXCEPT
                                   ![c] = SqliteDriver_start_except(@, answer)]
                   /\ ApplyCon(World)

Expire(c) ==
    /\ ~nested_transactions
    /\ thread[c].pc = "loop"
    /\ ~SqliteDriver_start_in_time(thread[c])
    /\ thread' = [thread EXCEPT ![c] = SqliteDriver_start_raise(@)]
    /\ ApplyCon(World)

Wake(c) ==
    /\ ~nested_transactions
    /\ thread[c].pc = "sleep"
    /\ thread[c].nap = 0
    /\ thread' = [thread EXCEPT ![c].pc = "loop"]
    /\ ApplyCon(World)

\* One sleep interval of time passes for every caller inside start.
Tick ==
    /\ ~nested_transactions
    /\ \E c \in Callers :
          /\ Waiting(thread[c])
          /\ \/ thread[c].elapsed < thread[c].timeout * TicksPerSecond
             \/ thread[c].nap > 0
    /\ thread' = [c \in Callers |->
                    IF Waiting(thread[c])
                    THEN [thread[c] EXCEPT
                            !.elapsed = IF @ < thread[c].timeout * TicksPerSecond
                                        THEN @ + 1 ELSE @,
                            !.nap = IF @ > 0 THEN @ - 1 ELSE 0]
                    ELSE thread[c]]
    /\ ApplyCon(World)

Write(c) ==
    /\ ~nested_transactions
    /\ thread[c].pc = "holding"
    /\ \E ok \in BOOLEAN :
          /\ ApplyCon(SqliteDriver_execute(World, c, ok))
          /\ thread' = [thread EXCEPT ![c].wrote = @ \/ ok]

CommitT(c) ==
    /\ ~nested_transactions
    /\ thread[c].pc = "holding"
    /\ ApplyCon(SqliteDriver_commit(World))
    /\ thread' = [thread EXCEPT ![c].pc = "idle",
                                ![c].kept = @ \/ thread[c].wrote,
                                ![c].wrote = FALSE]

RollbackT(c) ==
    /\ ~nested_transactions
    /\ thread[c].pc = "holding"
    /\ ApplyCon(SqliteDriver_rollback(World))
    /\ thread' = [thread EXCEPT ![c].pc = "idle", ![c].wrote = FALSE]

InitTimeout ==
    /\ nested_transactions = FALSE
    /\ InitTransactionState
    /\ con = [in_transaction |-> FALSE, pending |-> {}]
    /\ table = {}
    /\ scope = [open |-> FALSE, rollback |-> FALSE, closed |-> FALSE,
                depth |-> 0, balanced |-> TRUE]
    /\ last = [op |-> "new", before |-> World, inside |-> scope,
               issued |-> <<>>, raised |-> NoExc]
    /\ trace = <<>>
    /\ thread = [c \in Callers |-> IdleThread]
    /\ cm = NoCM
    /\ QueryIdle

NextTimeout ==
    \/ Tick
    \/ \E c \in Callers :
          \/ CallStart(c)
          \/ Attempt(c)
          \/ Expire(c)
          \/ Wake(c)
          \/ Write(c)
          \/ CommitT(c)
          \/ RollbackT(c)

SpecTimeout == InitTimeout /\ [][NextTimeout]_vars

\* The scheduler runs every caller that can take a step, and time passes.
SpecTimeoutFair ==
    /\ SpecTimeout
    /\ WF_vars(Tick)
    /\ \A c \in Callers :
          WF_vars(Attempt(c)) /\ WF_vars(Expire(c)) /\ WF_vars(Wake(c))

\* ----------------------------------------------- claims on the timeout mode
Holders == {c \in Callers : thread[c].pc = "holding"}

TimeoutError(t) ==
    /\ t.result.exc = "Error"
    /\ t.result.named = <<t.timeout>>
    /\ t.result.msg = Busy

\* C7: a start_transaction made while the engine reports a transaction
\* active retries until the engine accepts the begin or the timeout has
\* elapsed; in the latter case it fails with the Error that names the
\* timeout; it never returns without the engine having begun a transaction.
C7_StartRetries ==
    \A c \in Callers :
        LET t == thread[c]
        IN  /\ t.pc = "holding" => con.in_transaction
            /\ (t.pc = "raised" /\ t.exc_buf # OtherError /\ Holders # {}) =>
                  (t.result.expired /\ TimeoutError(t))

\* C7, its last part: every start_transaction call ends.
C7_Terminates ==
    \A c \in Callers : Waiting(thread[c]) ~> ~Waiting(thread[c])

\* C8: of two callers contending for the connection at most one holds an
\* open transaction at any time; a start that cannot get the transaction
\* before its timeout fails with the Error naming its timeout; the rows of
\* every caller that has committed are persisted.
C8_Contention ==
    /\ Cardinality(Holders) <= 1
    /\ (Holders # {}) = con.in_transaction
    /\ \A c \in Callers :
          LET t == thread[c]
          IN  /\ (t.pc = "raised" /\ t.exc_buf # OtherError /\ Holders # {}) => TimeoutError(t)
              /\ t.kept => c \in table

\* C9: when the engine answers a begin with an error other than "already
\* active", start_transaction attempts nothing more: the call has ended at
\* once, raising the Error that carries that engine message.
C9_OtherErrorAborts ==
    \A c \in Callers :
        LET t == thread[c]
        IN  t.exc_buf = OtherError =>
               /\ t.pc = "raised"
               /\ t.nap = 0
               /\ t.result.exc = "Error"
               /\ t.result.msg = OtherError
               /\ t.result.named = <<t.timeout>>

C9_Witness ==
    \E c \in Callers :
        /\ thread[c].exc_buf = OtherError
        /\ thread[c].pc = "raised"
        /\ ~thread[c].result.expired
        /\ thread[c].timeout = DefaultTimeout
        /\ con.in_transaction

\* --------------------------------------------------------- TransactionCM
\* Longest nesting of with blocks.
MaxWith == 2

\* __enter__: the driver calls it makes.
TransactionCM_enter == <<"start_transaction">>

\* __exit__ with the test of traceback inverted.
TransactionCM_exit_inverted(traceback) ==
    [calls   |-> IF traceback THEN <<"commit">> ELSE <<"rollback">>,
     returns |-> FALSE]

\* __exit__(type, value, traceback): the driver calls it makes and what it
\* returns (True would suppress the exception).
TransactionCM_exit(traceback) ==
    [calls   |-> IF traceback THEN <<"rollback">> ELSE <<"commit">>,
     returns |-> FALSE]

\* One driver call of the context manager on the handle.
DriverCall(name, w, late) ==
    IF w.raised # NoExc THEN w
    ELSE IF name = "start_transaction" THEN MysqlDriver_start_transaction(w, late)
    ELSE IF name = "commit" THEN MysqlDriver_commit(w)
    ELSE MysqlDriver_rollback(w)

RECURSIVE DriverCalls(_, _, _)
DriverCalls(calls, w, late) ==
    IF calls = <<>> THEN w
    ELSE DriverCalls(Tail(calls), DriverCall(Head(calls), w, late), late)

\* with dbh.transaction(): control enters the block unless __enter__ raises.
Enter ==
    /\ cm.exc = NoExc
    /\ cm.depth < MaxWith
    /\ Len(trace) < MaxCalls
    /\ \E late \in BOOLEAN :
          LET calls == TransactionCM_enter
              w1 == DriverCalls(calls, World, late)
          IN  /\ Apply("enter", w1)
              /\ cm' = [depth |-> IF w1.raised = NoExc THEN cm.depth + 1
                                  ELSE cm.depth,
                        exc   |-> w1.raised,
                        last  |-> [event |-> "enter", calls |-> calls,
                                   exc_in |-> NoExc, exc_out |-> w1.raised]]

\* Control leaves the innermost block, normally or with the exception in
\* flight; an exception raised by __exit__ itself replaces it.
Exit ==
    /\ cm.depth > 0
    /\ Len(trace) < MaxCalls
    /\ LET r == TransactionCM_exit(cm.exc # NoExc)
           w1 == DriverCalls(r.calls, World, FALSE)
           out == IF w1.raised # NoExc THEN w1.raised
                  ELSE IF r.returns THEN NoExc
                  ELSE cm.exc
       IN  /\ Apply("exit", w1)
           /\ cm' = [depth |-> cm.depth - 1,
                     exc   |-> out,
                     last  |-> [event |-> "exit", calls |-> r.calls,
                                exc_in |-> cm.exc, exc_out |-> out]]

\* A statement executed inside or outside the blocks.
BodyExecute ==
    /\ cm.exc = NoExc
    /\ Len(trace) < MaxCalls
    /\ \E ok \in BOOLEAN, late \in BOOLEAN :
          LET w1 == MysqlDriver_execute(World, Len(trace) + 1, ok, late)
          IN  /\ Apply(IF ok THEN "execute" ELSE "execute_failed", w1)
              /\ cm' = [cm EXCEPT !.exc = w1.raised]

\* The code inside a block raises an exception of its own.
BodyRaise ==
    /\ cm.exc = NoExc
    /\ cm.depth > 0
    /\ cm' = [cm EXCEPT !.exc = BodyError]
    /\ UNCHANGED <<nested_transactions, transaction_cnt, nested_rollback, con,
                   table, last, trace, scope, thread>>
    /\ UNCHANGED queryVars

\* An except clause around the failing statement or block catches it.
Catch ==
    /\ cm.exc # NoExc
    /\ cm' = [cm EXCEPT !.exc = NoExc]
    /\ UNCHANGED <<nested_transactions, transaction_cnt, nested_rollback, con,
                   table, last, trace, scope, thread>>
    /\ UNCHANGED queryVars

InitCM ==
    /\ nested_transactions \in BOOLEAN
    /\ InitTransactionState
    /\ con = [in_transaction |-> FALSE, pending |-> {}]
    /\ table = {}
    /\ scope = [open |-> FALSE, rollback |-> FALSE, closed |-> FALSE,
                depth |-> 0, balanced |-> TRUE]
    /\ last = [op |-> "new", before |-> World, inside |-> scope,
               issued |-> <<>>, raised |-> NoExc]
    /\ trace = <<>>
    /\ thread = <<>>
    /\ cm = NoCM
    /\ QueryIdle

NextCM == Enter \/ Exit \/ BodyExecute \/ BodyRaise \/ Catch

SpecCM == InitCM /\ [][NextCM]_vars

\* C10: entering a with block calls start_transaction exactly once; leaving
\* it normally calls commit exactly once and never rollback; leaving it with
\* an escaping exception calls rollback exactly once, never commit, and the
\* same exception goes on to the caller.
C10_ContextManager ==
    /\ cm.last.event = "enter" => cm.last.calls = <<"start_transaction">>
    /\ (cm.last.event = "exit" /\ cm.last.exc_in = NoExc) =>
          /\ cm.last.calls = <<"commit">>
          /\ cm.last.exc_out \in {NoExc, StickyError}
    /\ (cm.last.event = "exit" /\ cm.last.exc_in # NoExc) =>
          /\ cm.last.calls = <<"rollback">>
          /\ cm.last.exc_out = cm.last.exc_in

C10_Witness ==
    /\ cm.last.event = "exit"
    /\ cm.last.exc_in = QueryError
    /\ cm.exc = QueryError
    /\ cm.depth = 0
    /\ table = {}
    /\ \E i \in 1..Len(trace) : trace[i] = "execute"

\* ------------------------------------------- one handle, either mode, closed
\* close: one rollback() of the driver, then the connection is closed and
\* the handle gives it up; a transaction left open on it is dropped.
MysqlDriver_close(w) ==
    LET w1 == MysqlDriver_rollback(w)
    IN  [w1 EXCEPT !.issued = Append(@, "CLOSE"),
                   !.pending = {},
                   !.in_transaction = FALSE]

\* SqliteDriver.close: the connection is closed, nothing else is touched.
SqliteDriver_close(w) ==
    [w EXCEPT !.issued = Append(@, "CLOSE"),
              !.pending = {},
              !.in_transaction = FALSE]

\* The calls of a MysqlDriver handle that runs without nested_transactions.
\* late: the start found its timeout passed before the first attempt.
MysqlStart ==
    /\ ~nested_transactions
    /\ last.op # "close"
    /\ Len(trace) < MaxCalls
    /\ \E late \in BOOLEAN :
          Apply("start", MysqlDriver_start_transaction(World, late))
    /\ UNCHANGED cm

MysqlCommit ==
    /\ ~nested_transactions
    /\ last.op # "close"
    /\ Len(trace) < MaxCalls
    /\ Apply("commit", MysqlDriver_commit(World))
    /\ UNCHANGED cm

MysqlRollback ==
    /\ ~nested_transactions
    /\ last.op # "close"
    /\ Len(trace) < MaxCalls
    /\ Apply("rollback", MysqlDriver_rollback(World))
    /\ UNCHANGED cm

MysqlExecute ==
    /\ ~nested_transactions
    /\ last.op # "close"
    /\ Len(trace) < MaxCalls
    /\ \E ok \in BOOLEAN, late \in BOOLEAN :
          Apply(IF ok THEN "execute" ELSE "execute_failed",
                MysqlDriver_execute(World, Len(trace) + 1, ok, late))
    /\ UNCHANGED cm

\* The handle is closed; it is not used afterwards.
Close ==
    /\ last.op # "close"
    /\ Len(trace) < MaxCalls
    /\ Apply("close", MysqlDriver_close(World))
    /\ UNCHANGED cm

InitDriver ==
    /\ nested_transactions \in BOOLEAN
    /\ InitTransactionState
    /\ con = [in_transaction |-> FALSE, pending |-> {}]
    /\ table = {}
    /\ scope = [open |-> FALSE, rollback |-> FALSE, closed |-> FALSE,
                depth |-> 0, balanced |-> TRUE]
    /\ last = [op |-> "new", before |-> World, inside |-> scope,
               issued |-> <<>>, raised |-> NoExc]
    /\ trace = <<>>
    /\ thread = <<>>
    /\ cm = NoCM
    /\ QueryIdle

NextDriver ==
    \/ Start \/ Commit \/ Rollback \/ Execute
    \/ MysqlStart \/ MysqlCommit \/ MysqlRollback \/ MysqlExecute
    \/ Close

SpecDriver == InitDriver /\ [][NextDriver]_vars

\* C11: a successful execute called while the connection has no transaction
\* begins one, runs the statement and commits it: afterwards no transaction
\* is open and the row is persistent. An execute called inside a transaction
\* the caller opened issues neither a commit nor a rollback and leaves that
\* transaction open.
C11_Execute ==
    /\ (scope.balanced /\ last.op = "execute" /\ last.raised = NoExc
            /\ ~last.before.in_transaction) =>
          /\ last.issued = <<"BEGIN", "EXEC", "COMMIT">>
          /\ ~con.in_transaction
          /\ Len(trace) \in table
    /\ (last.op \in {"execute", "execute_failed"}
            /\ last.before.in_transaction) =>
          /\ ~Issued("COMMIT")
          /\ ~Issued("ROLLBACK")
          /\ con.in_transaction
          /\ table = last.before.table

\* C11 on the handles whose depth counter is 0 when the execute is called.
C11_ExecuteAtDepthZero ==
    (last.op = "execute" /\ last.raised = NoExc
        /\ ~last.before.in_transaction /\ last.before.transaction_cnt = 0) =>
          /\ last.issued = <<"BEGIN", "EXEC", "COMMIT">>
          /\ ~con.in_transaction
          /\ Len(trace) \in table

\* C12: after close the transaction state is (0, false).
C12_CloseResets ==
    last.op = "close" => (transaction_cnt = 0 /\ nested_rollback = FALSE)

\* C12 in the mode without nested transactions.
C12_CloseTimeoutMode ==
    (last.op = "close" /\ ~nested_transactions) =>
        (transaction_cnt = 0 /\ nested_rollback = FALSE)

\* ------------------------------------------------------------ condition.py
MaxValues == 3

IndexError == "IndexError: list index out of range"

\* A Python value is a list or a scalar; its wrapper tells which.
PyList(items) == [list |-> items]
PyScalar(item) == [scalar |-> item]
IsList(value) == "list" \in DOMAIN value

\* Null(col), NotNull(col)
Null(col) == [cls |-> "Null", operator |-> "IS", col |-> col]
NotNull(col) == [cls |-> "NotNull", operator |-> "IS NOT", col |-> col]

\* Eq.__init__: a list gives one parameter set per item, a scalar one set.
Eq_init(cls, operator, col, value) ==
    [cls |-> cls, operator |-> operator, col |-> col,
     value |-> IF IsList(value)
               THEN [i \in 1..Len(value.list) |-> <<value.list[i]>>]
               ELSE <<<<value.scalar>>>>]

Eq(col, value) == Eq_init("Eq", "=", col, value)
Gt(col, value) == Eq_init("Gt", ">", col, value)

\* And(*conditions), Or(*conditions)
And(conditions) == [cls |-> "And", operator |-> "AND", conditions |-> conditions]
Or(conditions) == [cls |-> "Or", operator |-> "OR", conditions |-> conditions]

IsCombinator(node) == node.cls \in {"And", "Or"}
IsNullCheck(node) == node.cls \in {"Null", "NotNull"}

\* The columns a caller names, one for every place a leaf can take in a tree.
Columns == {"c", "c1", "c2", "c11", "c12", "c21", "c22"}

\* quote_name of the driver on these names.
quote_name ==
    [c |-> "\"c\"", c1 |-> "\"c1\"", c2 |-> "\"c2\"", c11 |-> "\"c11\"",
     c12 |-> "\"c12\"", c21 |-> "\"c21\"", c22 |-> "\"c22\"",
     id |-> "\"id\"", name |-> "\"name\"", size |-> "\"size\"",
     nope |-> "\"nope\""]

\* The name as it appears in the statement: quote(col) if a quoting method
\* is given, else col.
QuotedName(col, quote) == IF quote THEN quote_name[col] ELSE col

\* A string is the sequence of the pieces it was put together from; the
\* empty string is the empty sequence.
RECURSIVE serialize(_, _, _, _)
RECURSIVE And_serialize_loop(_, _, _, _)

\* The loop of And.serialize over self.conditions, from child i on.
And_serialize_loop(node, i, quote, placeholder) ==
    IF i > Len(node.conditions)
    THEN <<>>
    ELSE serialize(node.conditions[i], TRUE, quote, placeholder)
         \o (IF i + 1 <= Len(node.conditions)
             THEN <<" ", node.operator, " ">> ELSE <<>>)
         \o And_serialize_loop(node, i + 1, quote, placeholder)

\* And.serialize without the early return for an outermost combinator that
\* has no condition.
And_serialize_always_wrapped(node, nested, quote, placeholder) ==
    (IF ~nested THEN <<" WHERE ">> ELSE <<>>)
    \o <<"(">>
    \o And_serialize_loop(node, 1, quote, placeholder)
    \o <<")">>

And_serialize(node, nested, quote, placeholder) ==
    IF ~nested /\ Len(node.conditions) = 0
    THEN <<>>
    ELSE (IF ~nested THEN <<" WHERE ">> ELSE <<>>)
         \o <<"(">>
         \o And_serialize_loop(node, 1, quote, placeholder)
         \o <<")">>

Null_serialize(node, nested, quote, placeholder) ==
    (IF ~nested THEN <<" WHERE ">> ELSE <<>>)
    \o <<QuotedName(node.col, quote), " ", node.operator, " NULL">>

\* Eq.serialize with the comparison of a single None written as NULL in
\* the clause, without a placeholder.
Eq_serialize_literal_null(node, nested, quote, placeholder) ==
    (IF ~nested THEN <<" WHERE ">> ELSE <<>>)
    \o <<QuotedName(node.col, quote), " ", node.operator, " ",
          IF Len(node.value) = 1 THEN "NULL" ELSE placeholder>>

Eq_serialize(node, nested, quote, placeholder) ==
    (IF ~nested THEN <<" WHERE ">> ELSE <<>>)
    \o <<QuotedName(node.col, quote), " ", node.operator, " ", placeholder>>

serialize(node, nested, quote, placeholder) ==
    IF IsCombinator(node) THEN And_serialize(node, nested, quote, placeholder)
    ELSE IF IsNullCheck(node) THEN Null_serialize(node, nested, quote, placeholder)
    ELSE Eq_serialize(node, nested, quote, placeholder)

\* params returns the parameter sets, or the call ends with an exception.
Returned(rows) == [raised |-> NoExc, rows |-> rows]
Raised(exc) == [raised |-> exc, rows |-> <<>>]

RECURSIVE params(_)
RECURSIVE And_params_N_sets(_, _, _)
RECURSIVE And_params_p(_, _, _)

\* The first loop of And.params: the greatest number of sets, at least 1.
And_params_N_sets(node, k, N_sets) ==
    IF k > Len(node.conditions)
    THEN N_sets
    ELSE LET n == Len(params(node.conditions[k]).rows)
         IN  And_params_N_sets(node, k + 1, IF n > N_sets THEN n ELSE N_sets)

\* The inner loop of And.params for set i (counted from 1), from child k
\* on: the child's set i, or its last set; [-1] of an empty list raises.
And_params_p(node, i, k) ==
    IF k > Len(node.conditions)
    THEN Returned(<<>>)
    ELSE LET sets == params(node.conditions[k]).rows
             rest == And_params_p(node, i, k + 1)
         IN  IF i <= Len(sets)
             THEN IF rest.raised # NoExc THEN rest
                  ELSE Returned(sets[i] \o rest.rows)
             ELSE IF Len(sets) = 0
             THEN Raised(IndexError)
             ELSE IF rest.raised # NoExc THEN rest
                  ELSE Returned(sets[Len(sets)] \o rest.rows)

\* And.params with N_sets = 2 in front of the first loop.
And_params_two_sets(node) ==
    IF \E k \in 1..Len(node.conditions) :
           params(node.conditions[k]).raised # NoExc
    THEN Raised(IndexError)
    ELSE LET N_sets == And_params_N_sets(node, 1, 2)
             ps == [i \in 1..N_sets |-> And_params_p(node, i, 1)]
         IN  IF \E i \in 1..N_sets : ps[i].raised # NoExc
             THEN Raised(IndexError)
             ELSE Returned([i \in 1..N_sets |-> ps[i].rows])

\* And.params
And_params(node) ==
    IF \E k \in 1..Len(node.conditions) :
           params(node.conditions[k]).raised # NoExc
    THEN Raised(IndexError)
    ELSE LET N_sets == And_params_N_sets(node, 1, 1)
             ps == [i \in 1..N_sets |-> And_params_p(node, i, 1)]
         IN  IF \E i \in 1..N_sets : ps[i].raised # NoExc
             THEN Raised(IndexError)
             ELSE Returned([i \in 1..N_sets |-> ps[i].rows])

params(node) ==
    IF IsCombinator(node) THEN And_params(node)
    ELSE IF IsNullCheck(node) THEN Returned(<<<<>>>>)
    ELSE Returned(node.value)

RECURSIVE cols(_)
RECURSIVE And_cols(_, _)

And_cols(node, k) ==
    IF k > Len(node.conditions)
    THEN <<>>
    ELSE cols(node.conditions[k]) \o And_cols(node, k + 1)

cols(node) ==
    IF IsCombinator(node) THEN And_cols(node, 1) ELSE <<node.col>>

\* ----------------------------------------------- the trees a caller builds
\* The column named at child i of the node that would be named col.
\* ------------------------------------------ the lists params works on
\* The list a local name of And.params is bound to: a list of its own
\* (of = <<>>), or set i of the value of child k (of = <<k, i>>), which
\* Eq.params hands out as it is.
NewList == [of |-> <<>>, items |-> <<>>]

\* p = x + p for p += x: the values of the later conditions come first.
Extend_prepends(node, p, x) ==
    [node |-> IF p.of = <<>> THEN node
              ELSE [node EXCEPT !.conditions[p.of[1]].value[p.of[2]] = x \o @],
     p    |-> [p EXCEPT !.items = x \o @]]

\* p += x: the list p is bound to is extended in place; when it is a list
\* of the tree, the tree has changed.
Extend(node, p, x) ==
    [node |-> IF p.of = <<>> THEN node
              ELSE [node EXCEPT !.conditions[p.of[1]].value[p.of[2]] = @ \o x],
     p    |-> [p EXCEPT !.items = @ \o x]]

\* p bound to set i of the first child when that is a comparison with such
\* a set, as by p = self.conditions[0].params()[i].
And_params_alias_p(node, i) ==
    IF /\ Len(node.conditions) >= 1
       /\ ~IsCombinator(node.conditions[1])
       /\ ~IsNullCheck(node.conditions[1])
       /\ i <= Len(node.conditions[1].value)
    THEN [of |-> <<1, i>>, items |-> node.conditions[1].value[i]]
    ELSE NewList

\* p = []
And_params_new_p(node, i) == NewList

RECURSIVE params_heap(_)
RECURSIVE And_params_heap_p(_, _, _)
RECURSIVE And_params_heap_ps(_, _, _, _)

\* The inner loop of And.params for set i from child k on, with the tree
\* and the list p as the loop finds them: cond.params() is called on the
\* child, and p is extended by the child's set i or by its last set.
And_params_heap_p(st, i, k) ==
    IF k > Len(st.node.conditions) \/ st.raised # NoExc THEN st
    ELSE LET c == params_heap(st.node.conditions[k])
             node1 == [st.node EXCEPT !.conditions[k] = c.node]
         IN  IF c.raised # NoExc
             THEN [st EXCEPT !.node = node1, !.raised = c.raised]
             ELSE IF Len(c.rows) = 0
             THEN [st EXCEPT !.node = node1, !.raised = IndexError]
             ELSE LET e == Extend(node1, st.p,
                                  IF i <= Len(c.rows) THEN c.rows[i]
                                  ELSE c.rows[Len(c.rows)])
                  IN  And_params_heap_p(
                          [node |-> e.node, p |-> e.p, raised |-> NoExc],
                          i, k + 1)

\* The outer loop of And.params from set i on: ps.append(p).
And_params_heap_ps(node, i, N, ps) ==
    IF i > N THEN [node |-> node, raised |-> NoExc, rows |-> ps]
    ELSE LET st == And_params_heap_p(
                       [node |-> node, p |-> And_params_new_p(node, i),
                        raised |-> NoExc], i, 1)
         IN  IF st.raised # NoExc
             THEN [node |-> st.node, raised |-> st.raised, rows |-> <<>>]
             ELSE And_params_heap_ps(st.node, i + 1, N, Append(ps, st.p.items))

\* node.params() with the tree it leaves: And.params runs its loops on the
\* lists of the tree; Null.params and Eq.params only return.
params_heap(node) ==
    IF ~IsCombinator(node)
    THEN [node |-> node, raised |-> params(node).raised,
          rows |-> params(node).rows]
    ELSE IF \E k \in 1..Len(node.conditions) :
                params(node.conditions[k]).raised # NoExc
    THEN [node |-> node, raised |-> IndexError, rows |-> <<>>]
    ELSE And_params_heap_ps(node, 1, And_params_N_sets(node, 1, 1), <<>>)

ChildColumn ==
    [c |-> <<"c1", "c2">>, c1 |-> <<"c11", "c12">>, c2 |-> <<"c21", "c22">>]

\* The values a caller compares col with: each tells its column and its
\* place in the list it was given in (0 for a scalar).
Value(col, k) == [of |-> col, k |-> k]

Leaves(col) ==
    {Null(col), NotNull(col), Eq(col, PyScalar(Value(col, 0))),
     Gt(col, PyScalar(Value(col, 0)))}
    \cup {Eq(col, PyList([k \in 1..n |-> Value(col, k)])) : n \in 0..MaxValues}

\* The argument lists of a combinator with up to two children.
ConditionLists(first, second) ==
    {<<>>} \cup {<<a>> : a \in first} \cup {<<a, b>> : a \in first, b \in second}

Combinators(first, second) ==
    LET lists == ConditionLists(first, second)
    IN  {And(l) : l \in lists} \cup {Or(l) : l \in lists}

\* The leaves put under an inner combinator: a null check, a scalar, the
\* empty list and the longest list.
InnerLeaves(col) ==
    {Null(col), Eq(col, PyScalar(Value(col, 0))), Eq(col, PyList(<<>>)),
     Eq(col, PyList([k \in 1..MaxValues |-> Value(col, k)]))}

Inner(col) ==
    Leaves(col)
    \cup Combinators(InnerLeaves(ChildColumn[col][1]),
                     InnerLeaves(ChildColumn[col][2]))

Trees ==
    Leaves("c")
    \cup Combinators(Inner(ChildColumn["c"][1]), Inner(ChildColumn["c"][2]))

Placeholders == {"?", "%s"}

NoRet ==
    [op |-> "none", nested |-> FALSE, quote |-> FALSE, placeholder |-> "?",
     text |-> <<>>, params |-> Returned(<<>>), cols |-> <<>>, tree |-> <<>>]

\* The caller asks for the clause.
Serialize ==
    /\ cond # <<>>
    /\ \E nested \in BOOLEAN, quote \in BOOLEAN, placeholder \in Placeholders :
          ret' = [NoRet EXCEPT !.op = "serialize", !.nested = nested,
                               !.quote = quote, !.placeholder = placeholder,
                               !.text = serialize(cond, nested, quote, placeholder)]
    /\ UNCHANGED <<nested_transactions, transaction_cnt, nested_rollback, con,
                   table, last, trace, scope, thread, cm, cond, db, call>>

\* The caller asks for the parameter sets.
Params ==
    /\ cond # <<>>
    /\ ret' = [NoRet EXCEPT !.op = "params",
                            !.params = [raised |-> params_heap(cond).raised,
                                        rows |-> params_heap(cond).rows]]
    /\ cond' = params_heap(cond).node
    /\ UNCHANGED <<nested_transactions, transaction_cnt, nested_rollback, con,
                   table, last, trace, scope, thread, cm, db, call>>

\* The caller asks for the columns.
Cols ==
    /\ cond # <<>>
    /\ ret' = [NoRet EXCEPT !.op = "cols", !.cols = cols(cond)]
    /\ UNCHANGED <<nested_transactions, transaction_cnt, nested_rollback, con,
                   table, last, trace, scope, thread, cm, cond, db, call>>

InitCondition ==
    /\ nested_transactions = FALSE
    /\ InitTransactionState
    /\ con = [in_transaction |-> FALSE, pending |-> {}]
    /\ table = {}
    /\ scope = [open |-> FALSE, rollback |-> FALSE, closed |-> FALSE,
                depth |-> 0, balanced |-> TRUE]
    /\ last = [op |-> "new", before |-> World, inside |-> scope,
               issued |-> <<>>, raised |-> NoExc]
    /\ trace = <<>>
    /\ thread = <<>>
    /\ cm = NoCM
    /\ cond \in Trees
    /\ ret = NoRet
    /\ TableIdle

NextCondition == Serialize \/ Params \/ Cols

SpecCondition == InitCondition /\ [][NextCondition]_vars

\* The number of placeholders in a clause.
RECURSIVE CountPlaceholders(_, _)
CountPlaceholders(text, placeholder) ==
    IF text = <<>> THEN 0
    ELSE (IF Head(text) = placeholder THEN 1 ELSE 0)
         + CountPlaceholders(Tail(text), placeholder)

\* C13: whatever the tree, every parameter set that params returns has as
\* many values as serialize emits placeholders, for either setting of nested
\* and of quote and for either placeholder.
C13_PlaceholdersMatch ==
    (ret.op = "params" /\ ret.params.raised = NoExc) =>
        \A i \in 1..Len(ret.params.rows) :
            \A nested \in BOOLEAN, quote \in BOOLEAN, placeholder \in Placeholders :
                Len(ret.params.rows[i])
                    = CountPlaceholders(serialize(cond, nested, quote, placeholder),
                                        placeholder)

\* A nested tree with a null check, whose parameter sets have two values.
C13_Witness ==
    /\ ret.op = "params"
    /\ IsCombinator(cond)
    /\ Len(cond.conditions) = 2
    /\ IsCombinator(cond.conditions[1])
    /\ \E k \in 1..Len(cond.conditions[1].conditions) :
           IsNullCheck(cond.conditions[1].conditions[k])
    /\ ret.params.raised = NoExc
    /\ Len(ret.params.rows) = MaxValues
    /\ Len(ret.params.rows[1]) = 2

\* The greatest of a non-empty sequence of numbers.
RECURSIVE MaxOf(_)
MaxOf(ns) ==
    IF Len(ns) = 1 THEN ns[1]
    ELSE LET m == MaxOf(Tail(ns)) IN IF ns[1] > m THEN ns[1] ELSE m

\* Row i of a child's parameter sets, or its last row past the end.
RowOrLast(rows, i) == IF i <= Len(rows) THEN rows[i] ELSE rows[Len(rows)]

\* The rows of the children, concatenated in declaration order.
RECURSIVE ConcatRows(_, _, _)
ConcatRows(children, i, k) ==
    IF k > Len(children) THEN <<>>
    ELSE RowOrLast(children[k], i) \o ConcatRows(children, i, k + 1)

\* C14: params of a combinator with children c1..ck returns
\* N = max len(ci.params()) rows, and row i is the concatenation, in
\* declaration order, of each child's row i, or of its last row when the
\* child has fewer than i rows.
C14_RowRepeat ==
    (ret.op = "params" /\ IsCombinator(cond) /\ Len(cond.conditions) >= 1) =>
        LET children == [k \in 1..Len(cond.conditions) |->
                            params(cond.conditions[k]).rows]
            N == MaxOf([k \in 1..Len(children) |-> Len(children[k])])
        IN  /\ ret.params.raised = NoExc
            /\ Len(ret.params.rows) = N
            /\ \A i \in 1..N : ret.params.rows[i] = ConcatRows(children, i, 1)

\* C14 for the combinators whose children all have a row to give.
C14_RowRepeatNonEmpty ==
    (ret.op = "params" /\ IsCombinator(cond) /\ Len(cond.conditions) >= 1
        /\ \A k \in 1..Len(cond.conditions) :
               /\ params(cond.conditions[k]).raised = NoExc
               /\ Len(params(cond.conditions[k]).rows) >= 1) =>
        LET children == [k \in 1..Len(cond.conditions) |->
                            params(cond.conditions[k]).rows]
            N == MaxOf([k \in 1..Len(children) |-> Len(children[k])])
        IN  /\ ret.params.raised = NoExc
            /\ Len(ret.params.rows) = N
            /\ \A i \in 1..N : ret.params.rows[i] = ConcatRows(children, i, 1)

\* The columns named in front of the placeholders of a clause, left to right.
RECURSIVE PlaceholderColumns(_, _, _)
PlaceholderColumns(text, p, placeholder) ==
    IF p > Len(text) THEN <<>>
    ELSE (IF text[p] = placeholder THEN <<text[p - 4]>> ELSE <<>>)
         \o PlaceholderColumns(text, p + 1, placeholder)

\* The comparison leaves of a tree, depth-first in declaration order.
RECURSIVE ComparisonColumns(_)
RECURSIVE ComparisonColumnsFrom(_, _)
ComparisonColumnsFrom(node, k) ==
    IF k > Len(node.conditions) THEN <<>>
    ELSE ComparisonColumns(node.conditions[k]) \o ComparisonColumnsFrom(node, k + 1)

ComparisonColumns(node) ==
    IF IsCombinator(node) THEN ComparisonColumnsFrom(node, 1)
    ELSE IF IsNullCheck(node) THEN <<>>
    ELSE <<node.col>>

\* C15: value j of every parameter set was given for the column whose
\* comparison emits placeholder j of the clause; the values follow the
\* comparison leaves depth-first in declaration order, and the null checks
\* give none.
C15_OrderMatches ==
    (ret.op = "params" /\ ret.params.raised = NoExc) =>
        \A i \in 1..Len(ret.params.rows) :
            LET row == ret.params.rows[i]
                owners == [j \in 1..Len(row) |-> row[j].of]
            IN  /\ owners = PlaceholderColumns(serialize(cond, FALSE, FALSE, "?"),
                                               1, "?")
                /\ owners = ComparisonColumns(cond)

\* Two comparisons under the second child, a null check before them.
C15_Witness ==
    /\ ret.op = "params"
    /\ ret.params.raised = NoExc
    /\ IsCombinator(cond)
    /\ Len(cond.conditions) = 2
    /\ IsNullCheck(cond.conditions[1])
    /\ IsCombinator(cond.conditions[2])
    /\ Len(ret.params.rows) >= 2
    /\ Len(ret.params.rows[2]) = 2

\* C16: a combinator without children serializes to the empty string when
\* outermost and to "()" when nested; one with children writes WHERE only
\* when outermost and always puts its children, joined by its operator,
\* between parentheses.
C16_Combinator ==
    (ret.op = "serialize" /\ IsCombinator(cond)) =>
        LET n == Len(cond.conditions)
            child(k) == serialize(cond.conditions[k], TRUE, ret.quote,
                                  ret.placeholder)
            joined == IF n = 1 THEN child(1)
                      ELSE child(1) \o <<" ", cond.operator, " ">> \o child(2)
        IN  IF n = 0
            THEN ret.text = IF ret.nested THEN <<"(", ")">> ELSE <<>>
            ELSE ret.text = (IF ret.nested THEN <<>> ELSE <<" WHERE ">>)
                            \o <<"(">> \o joined \o <<")">>

\* An outermost combinator without children has been serialized.
C16_Witness ==
    /\ ret.op = "serialize"
    /\ IsCombinator(cond)
    /\ Len(cond.conditions) = 0
    /\ ~ret.nested
    /\ ret.text = <<>>

\* --------------------------------------------- combinators of one kind
\* The conditions a caller puts under And(a, b, c): a null check, a
\* comparison with a scalar, with lists of 0, 2 and MaxValues values, and
\* combinators of two of these.
Operands(col) ==
    {Null(col), Eq(col, PyScalar(Value(col, 0))), Eq(col, PyList(<<>>)),
     Eq(col, PyList([k \in 1..2 |-> Value(col, k)])),
     Eq(col, PyList([k \in 1..MaxValues |-> Value(col, k)])),
     And(<<Eq(col, PyList([k \in 1..2 |-> Value(col, k)])), Null(col)>>),
     Or(<<Eq(col, PyScalar(Value(col, 0))),
          Gt(col, PyList([k \in 1..MaxValues |-> Value(col, k)]))>>)}

\* The caller asks a tree built from the children of cond for its parameter
\* sets.
ParamsOf(tree) ==
    /\ cond # <<>>
    /\ Len(cond.conditions) = 3
    /\ ret' = [NoRet EXCEPT !.op = "params", !.params = params(tree),
                            !.tree = tree]
    /\ UNCHANGED <<nested_transactions, transaction_cnt, nested_rollback, con,
                   table, last, trace, scope, thread, cm, cond, db, call>>

\* And(a, b, c).params()
ParamsFlat == ParamsOf(cond)

\* And(And(a, b), c).params()
ParamsLeft ==
    ParamsOf(And(<<And(<<cond.conditions[1], cond.conditions[2]>>),
                   cond.conditions[3]>>))

\* And(a, And(b, c)).params()
ParamsRight ==
    ParamsOf(And(<<cond.conditions[1],
                   And(<<cond.conditions[2], cond.conditions[3]>>)>>))

\* And(a).params(), And(b).params(), And(c).params()
ParamsSingle ==
    \E k \in 1..3 : ParamsOf(And(<<cond.conditions[k]>>))

InitRegroup ==
    /\ nested_transactions = FALSE
    /\ InitTransactionState
    /\ con = [in_transaction |-> FALSE, pending |-> {}]
    /\ table = {}
    /\ scope = [open |-> FALSE, rollback |-> FALSE, closed |-> FALSE,
                depth |-> 0, balanced |-> TRUE]
    /\ last = [op |-> "new", before |-> World, inside |-> scope,
               issued |-> <<>>, raised |-> NoExc]
    /\ trace = <<>>
    /\ thread = <<>>
    /\ cm = NoCM
    /\ \E a \in Operands("c1"), b \in Operands("c2"), c \in Operands("c11") :
          cond = And(<<a, b, c>>)
    /\ ret = NoRet
    /\ TableIdle

NextRegroup == ParamsFlat \/ ParamsLeft \/ ParamsRight \/ ParamsSingle

SpecRegroup == InitRegroup /\ [][NextRegroup]_vars

\* The node has a parameter set to give.
HasRows(node) ==
    params(node).raised = NoExc /\ Len(params(node).rows) >= 1

\* C29: for a, b, c that each have a parameter set, And(And(a, b), c),
\* And(a, And(b, c)) and And(a, b, c) have the same parameter sets, and
\* And(a) has those of a.
C29_Regroup ==
    (ret.op = "params" /\ ret.tree # <<>>
        /\ \A k \in 1..3 : HasRows(cond.conditions[k])) =>
        IF Len(ret.tree.conditions) = 1
        THEN ret.params = params(ret.tree.conditions[1])
        ELSE /\ ret.params = params(cond)
             /\ ret.params.raised = NoExc

\* And(And(a, b), c) asked for its sets, with a, b, c of 2, 3 and 1 sets.
C29_Witness ==
    /\ ret.op = "params"
    /\ ret.tree # <<>>
    /\ Len(ret.tree.conditions) = 2
    /\ IsCombinator(ret.tree.conditions[1])
    /\ Len(params(cond.conditions[1]).rows) = 2
    /\ Len(params(cond.conditions[2]).rows) = MaxValues
    /\ Len(params(cond.conditions[3]).rows) = 1
    /\ Len(ret.params.rows) = MaxValues

\* And(a) asked for its sets, with a of one set.
C29_WitnessSingle ==
    /\ ret.op = "params"
    /\ ret.tree # <<>>
    /\ Len(ret.tree.conditions) = 1
    /\ Len(ret.params.rows) = 1

\* ----------------------------------------------------------------- Table.py
\* Python's None.
None == "None"

ColumnError == "ColumnError"
ValidationError == "ValidationError"
SameColumnsError == "Error: Data sets have not the same columns"
NoColumnsError == "Error: No valid columns available"

\* The columns of the relation, as TablePersons declares them, in the order
\* in which a dict of the caller lists them.
columns == [name |-> {"not_empty", "unique"}, size |-> {"float"}]
ColumnOrder == <<"name", "size">>

\* An empty dict.
EmptyDict == [c \in {} |-> None]

\* The keys of a dict that are in keep, in the order of the dict.
RECURSIVE KeysFrom(_, _, _)
KeysFrom(dict, keep, k) ==
    IF k > Len(ColumnOrder) THEN <<>>
    ELSE (IF ColumnOrder[k] \in DOMAIN dict /\ ColumnOrder[k] \in keep
          THEN <<ColumnOrder[k]>> ELSE <<>>)
         \o KeysFrom(dict, keep, k + 1)

SeqToSet(seq) == {seq[i] : i \in 1..Len(seq)}

\* _v_float on the strings the callers pass: "2," is rewritten to "2.0", "1"
\* is kept, anything else is not a float.
FloatText == [x \in {"1", "2,"} |-> IF x = "2," THEN "2.0" ELSE x]

v_float(value) ==
    IF value \in DOMAIN FloatText
    THEN [value |-> FloatText[value], error |-> ""]
    ELSE [value |-> value, error |-> "INVALID_FLOAT"]

\* validate(col, value, fmt, errors): the validated value and the error
\* stored under col ("" when none is stored).
validate(value, fmt) ==
    IF "not_null" \in fmt /\ value = None
    THEN [value |-> value, error |-> "NONE_FIELD"]
    ELSE IF value = None
    THEN [value |-> None, error |-> ""]
    ELSE IF "not_empty" \in fmt /\ value = ""
    THEN [value |-> value, error |-> "EMPTY_FIELD"]
    ELSE IF value # "" /\ "float" \in fmt
    THEN v_float(value)
    ELSE [value |-> value, error |-> ""]

\* Table._validate_data: the declared columns of the row, validated, and the
\* errors found in them.
Table_validate_data(data) ==
    LET known == DOMAIN data \cap DOMAIN columns
        checked == [c \in known |-> validate(data[c], columns[c])]
        failed == {c \in known : checked[c].error # ""}
    IN  [validated |-> [c \in known |-> checked[c].value],
         error     |-> [c \in failed |-> checked[c].error]]

\* Table._split_col_value: the loop over the rows from row i on. A row with
\* errors is skipped; the first row without errors gives the columns; a later
\* row without errors that lacks one of them ends the call at once.
RECURSIVE Table_split_loop(_, _, _)
Table_split_loop(data, i, acc) ==
    IF i > Len(data) THEN acc
    ELSE LET r == Table_validate_data(data[i])
             v == r.validated
             errors == Append(acc.errors, r.error)
         IN  IF DOMAIN r.error # {}
             THEN Table_split_loop(data, i + 1, [acc EXCEPT !.errors = errors])
             ELSE LET first == IF acc.cols = <<>>
                               THEN KeysFrom(v, DOMAIN v, 1)
                               ELSE acc.cols
                  IN  IF acc.cols # <<>> /\ ~(SeqToSet(acc.cols) \subseteq DOMAIN v)
                      THEN [acc EXCEPT !.errors = errors,
                                       !.raised = SameColumnsError]
                      ELSE Table_split_loop(data, i + 1,
                             [acc EXCEPT
                                !.errors = errors,
                                !.cols = first,
                                !.values = Append(@, [k \in 1..Len(first) |-> v[first[k]]]),
                                !.validated = Append(@, v)])

Table_split_col_value(data) ==
    LET acc == Table_split_loop(data, 1,
                  [raised |-> NoExc, errors |-> <<>>, validated |-> <<>>,
                   cols |-> <<>>, values |-> <<>>])
    IN  IF acc.raised # NoExc THEN acc
        ELSE IF \E i \in 1..Len(acc.errors) : DOMAIN acc.errors[i] # {}
        THEN [acc EXCEPT !.raised = ValidationError]
        ELSE IF acc.cols = <<>>
        THEN [acc EXCEPT !.raised = NoColumnsError]
        ELSE acc

\* ------------------------------------------- the engine behind the Table
\* The table of the engine: its rows and the autoincrement counter of id,
\* as committed and as the connection sees them.
EmptyTable == [rows |-> {}, seq |-> 0]

\* The number of placeholders of a condition.
Width(node) == CountPlaceholders(serialize(node, TRUE, FALSE, "?"), "?")

\* The number of placeholders of the conditions in front of condition k.
RECURSIVE WidthBefore(_, _)
WidthBefore(node, k) ==
    IF k = 1 THEN 0
    ELSE WidthBefore(node, k - 1) + Width(node.conditions[k - 1])

\* The values of a parameter set from place a to place b.
Slice(values, a, b) == [j \in 1..(b - a + 1) |-> values[a + j - 1]]

\* The values bound to the placeholders of condition k of a combinator.
ChildValues(node, values, k) ==
    Slice(values, WidthBefore(node, k) + 1,
          WidthBefore(node, k) + Width(node.conditions[k]))

\* Whether a row satisfies a condition under the values bound to its
\* placeholders; a comparison with NULL on either side is not satisfied.
RECURSIVE Satisfies(_, _, _)
Satisfies(row, node, values) ==
    IF IsCombinator(node)
    THEN IF node.cls = "And"
         THEN \A k \in 1..Len(node.conditions) :
                 Satisfies(row, node.conditions[k], ChildValues(node, values, k))
         ELSE \E k \in 1..Len(node.conditions) :
                 Satisfies(row, node.conditions[k], ChildValues(node, values, k))
    ELSE IF node.cls = "Null" THEN row[node.col] = None
    ELSE IF node.cls = "NotNull" THEN row[node.col] # None
    ELSE row[node.col] # None /\ values[1] # None /\ row[node.col] = values[1]

\* INSERT INTO (cols) VALUES (...), run once for every parameter set.
RECURSIVE engine_insert(_, _, _, _)
engine_insert(t, names, sets, i) ==
    IF i > Len(sets) THEN t
    ELSE LET field(c) == IF \E k \in 1..Len(names) : names[k] = c
                    THEN sets[i][CHOOSE k \in 1..Len(names) : names[k] = c]
                    ELSE None
             row == [id |-> t.seq + 1, name |-> field("name"), size |-> field("size")]
         IN  engine_insert([rows |-> t.rows \cup {row}, seq |-> t.seq + 1],
                           names, sets, i + 1)

\* UPDATE SET cols = ... WHERE ..., run once for every parameter set.
RECURSIVE engine_update(_, _, _, _, _)
engine_update(t, names, where, sets, i) ==
    IF i > Len(sets) THEN t
    ELSE LET n == Len(names)
             bound == Slice(sets[i], n + 1, Len(sets[i]))
             set(row, c) == IF \E k \in 1..n : names[k] = c
                            THEN sets[i][CHOOSE k \in 1..n : names[k] = c]
                            ELSE row[c]
             changed(row) == IF Satisfies(row, where, bound)
                             THEN [id |-> row.id, name |-> set(row, "name"),
                                   size |-> set(row, "size")]
                             ELSE row
         IN  engine_update([t EXCEPT !.rows = {changed(row) : row \in t.rows}],
                           names, where, sets, i + 1)

\* SELECT COUNT(*) WHERE ...
engine_count(t, where, values) ==
    Cardinality({row \in t.rows : Satisfies(row, where, values)})

\* The connection runs in autocommit mode: what a statement changes outside
\* a transaction is committed with it.
Written(d, t) ==
    IF d.in_transaction
    THEN [d EXCEPT !.current = t]
    ELSE [d EXCEPT !.current = t, !.committed = t]

\* The condition names a column the table of the engine does not have.
UnknownColumn(where) ==
    \E k \in 1..Len(cols(where)) : cols(where)[k] \notin {"id", "name", "size"}

\* The handle after a refused statement: MysqlDriver.execute has begun its
\* transaction and leaves the except branch without closing it.
AfterRefused(d) ==
    IF d.driver = "mysql" THEN [d EXCEPT !.in_transaction = TRUE] ELSE d

\* ------------------------------------------------------------------- Table
\* Table._validate_where looking at the first column of the condition only.
Table_validate_where_first(where) ==
    IF \A k \in 1..Len(cols(where)) :
           k > 1 \/ cols(where)[k] = "id" \/ cols(where)[k] \in DOMAIN columns
    THEN NoExc
    ELSE ColumnError

\* Table._validate_where
Table_validate_where(where) ==
    IF \A k \in 1..Len(cols(where)) :
           cols(where)[k] = "id" \/ cols(where)[k] \in DOMAIN columns
    THEN NoExc
    ELSE ColumnError

\* max(len(values), len(values_where))
N_sets(values, values_where) ==
    IF Len(values) > Len(values_where) THEN Len(values) ELSE Len(values_where)

\* The loop of Table._join_where_params with values[0] and values_where[0]
\* for [-1]: the first set is repeated, not the last.
Table_join_where_params_first(values, values_where) ==
    IF N_sets(values, values_where) > 0
        /\ (Len(values) = 0 \/ Len(values_where) = 0)
    THEN Raised(IndexError)
    ELSE Returned([i \in 1..N_sets(values, values_where) |->
             (IF i <= Len(values) THEN values[i] ELSE values[1])
             \o (IF i <= Len(values_where) THEN values_where[i]
                 ELSE values_where[1])])

\* The loop of Table._join_where_params over the N_sets parameter sets.
Table_join_where_params_loop(values, values_where) ==
    IF N_sets(values, values_where) > 0
        /\ (Len(values) = 0 \/ Len(values_where) = 0)
    THEN Raised(IndexError)
    ELSE Returned([i \in 1..N_sets(values, values_where) |->
             (IF i <= Len(values) THEN values[i]
              ELSE values[Len(values)])
             \o (IF i <= Len(values_where) THEN values_where[i]
                 ELSE values_where[Len(values_where)])])

\* where.params() as _join_where_params receives it.
Table_join_where_params_where(values, values_where) ==
    IF values_where.raised # NoExc
    THEN values_where
    ELSE Table_join_where_params_loop(values, values_where.rows)

\* Table._join_where_params
Table_join_where_params(values, where) ==
    IF Table_validate_where(where) # NoExc
    THEN Raised(Table_validate_where(where))
    ELSE Table_join_where_params_where(values, params(where))

\* The post-validators a caller passes: none, one that accepts every row,
\* one that rejects the first row.
Callbacks == {"None", "accepts", "rejects_first"}

cb_validate(cb, data, errors) ==
    IF cb = "rejects_first" /\ Len(errors) >= 1
    THEN [errors EXCEPT ![1] = [c \in DOMAIN @ \cup {"name"} |->
                                   IF c = "name" THEN "REJECTED" ELSE @[c]]]
    ELSE errors

\* Whether a list of error dicts holds an error.
HasErrors(errors) == \E i \in 1..Len(errors) : DOMAIN errors[i] # {}

\* Table._validate2: the unique columns a row carries.
Table_validate2_unique(row) ==
    {c \in DOMAIN columns : "unique" \in columns[c] /\ c \in DOMAIN row}

\* Table._validate2 flagging a value the table holds at all, not more than
\* once.
Table_validate2_flagged_any(d, row) ==
    {c \in Table_validate2_unique(row) :
        engine_count(d.current, Eq(c, PyScalar(row[c])), <<row[c]>>) > 0}

\* Table._validate2: the unique columns of a row whose value the table holds
\* more than once.
Table_validate2_flagged(d, row) ==
    {c \in Table_validate2_unique(row) :
        engine_count(d.current, Eq(c, PyScalar(row[c])), <<row[c]>>) > 1}

\* Table._validate2 handing the errors to the post-validator whether or not
\* the counts have flagged a row.
Table_validate2_raise_after_cb(cb, counted, errors, after) ==
    [counted |-> counted,
     called  |-> IF cb # "None" THEN 1 ELSE 0,
     errors  |-> IF cb = "None" THEN errors ELSE after,
     raised  |-> IF HasErrors(errors) THEN ValidationError
                 ELSE IF cb # "None" /\ HasErrors(after) THEN ValidationError
                 ELSE NoExc]

\* Table._validate2: what it raises, given the errors of the uniqueness
\* counts and those the post-validator leaves; called is the number of times
\* the post-validator has been called.
Table_validate2_raise(cb, counted, errors, after) ==
    [counted |-> counted,
     called  |-> IF ~HasErrors(errors) /\ cb # "None" THEN 1 ELSE 0,
     errors  |-> IF HasErrors(errors) \/ cb = "None" THEN errors ELSE after,
     raised  |-> IF HasErrors(errors) THEN ValidationError
                 ELSE IF cb # "None" /\ HasErrors(after) THEN ValidationError
                 ELSE NoExc]

\* Table._validate2: the post-validator is handed the errors of the counts.
Table_validate2_cb(data, cb, counted, errors) ==
    Table_validate2_raise(cb, counted, errors, cb_validate(cb, data, errors))

\* Table._validate2: the uniqueness counts, one statement each, then the
\* post-validator.
Table_validate2(d, data, cb) ==
    Table_validate2_cb(data, cb,
        [i \in 1..Len(data) |->
            KeysFrom(data[i], Table_validate2_unique(data[i]), 1)],
        [i \in 1..Len(data) |->
            [c \in Table_validate2_flagged(d, data[i]) |-> "NOT_UNIQUE"]])

\* What a call gives back: None, an id, or a list of ids.
PyNone == [type |-> "NoneType", items |-> <<>>]
PyInt(n) == [type |-> "int", items |-> <<n>>]
PyInts(ns) == [type |-> "list", items |-> ns]

\* The drivers a Table is built on.
Drivers == {"sqlite", "mysql"}

\* SqliteDriver.execute(sql, params, ret="id") of an INSERT that left the
\* table t1: one parameter set goes through execute and lastrowid is the id
\* of the new row; several go through executemany, which leaves the
\* lastrowid of the fresh cursor at None.
SqliteDriver_execute_id(params_, t1) ==
    IF Len(params_) > 1 THEN PyNone ELSE PyInt(t1.seq)

\* MysqlDriver.execute(sql, params, ret="id") of an INSERT that left the
\* table t1: lastrowid is appended to res after every parameter set, and res
\* is returned whole when there are several sets.
MysqlDriver_execute_id(params_, t1) ==
    IF Len(params_) > 1
    THEN PyInts([k \in 1..Len(params_) |-> t1.seq - Len(params_) + k])
    ELSE PyInt(t1.seq)

\* dbh.execute(sql, values, ret="id") on the driver of the handle.
execute_id(d, params_, t1) ==
    IF d.driver = "mysql"
    THEN MysqlDriver_execute_id(params_, t1)
    ELSE SqliteDriver_execute_id(params_, t1)

\* What a call on the Table object did and gave back.
NoCall ==
    [op |-> "none", data |-> <<>>, where |-> And(<<>>), cb |-> "None",
     before |-> <<>>, raised |-> NoExc, errors |-> <<>>, issued |-> <<>>,
     counts |-> 0, called |-> 0, log |-> <<>>, ret |-> PyNone, after |-> <<>>,
     closed |-> "none", passed |-> PyScalar("*"), cols |-> PyScalar("*"),
     gets |-> 0, prev |-> <<>>]

\* The number of uniqueness counts _validate2 has sent to the engine.
RECURSIVE CountsOf(_)
CountsOf(counted) ==
    IF counted = <<>> THEN 0 ELSE Len(Head(counted)) + CountsOf(Tail(counted))

\* A call that ends before a statement is sent.
Stopped(d, exc, errors) ==
    [db |-> d, raised |-> exc, errors |-> errors, issued |-> <<>>,
     counts |-> 0, called |-> 0, log |-> <<>>, ret |-> PyNone]

\* A call that has sent its statement and run _validate2.
Sent(stmt, values, d1, v2, id) ==
    [db |-> d1, raised |-> v2.raised,
     errors |-> IF v2.raised # NoExc THEN v2.errors ELSE <<>>,
     issued |-> <<[stmt |-> stmt, params |-> values]>>,
     counts |-> CountsOf(v2.counted),
     called |-> v2.called,
     log |-> <<stmt>> \o [k \in 1..(CountsOf(v2.counted) + v2.called) |->
                            IF k <= CountsOf(v2.counted) THEN "COUNT"
                            ELSE "cb_validate"],
     ret |-> IF v2.raised # NoExc THEN PyNone ELSE id]

\* A call that ends in _split_col_value.
StoppedInSplit(d, s) ==
    Stopped(d, s.raised, IF s.raised = ValidationError THEN s.errors ELSE <<>>)

\* Table.create with the post-validation moved in front of the INSERT.
Table_create_validates_first(d, s, t1, cb) ==
    IF Table_validate2(d, s.validated, cb).raised # NoExc
    THEN [Sent("INSERT", s.values, d, Table_validate2(d, s.validated, cb), PyNone)
             EXCEPT !.issued = <<>>, !.log = Tail(@)]
    ELSE [Sent("INSERT", s.values, Written(d, t1),
               Table_validate2(d, s.validated, cb),
               execute_id(d, s.values, t1))
             EXCEPT !.log = Tail(@) \o <<"INSERT">>]

\* Table.create from the INSERT on: the statement, then _validate2 on the
\* table the statement leaves.
Table_create_execute(d, s, t1, cb) ==
    Sent("INSERT", s.values, Written(d, t1),
         Table_validate2(Written(d, t1), s.validated, cb),
         execute_id(d, s.values, t1))

\* Table.create after _split_col_value.
Table_create_split(d, s, cb) ==
    IF s.raised # NoExc
    THEN StoppedInSplit(d, s)
    ELSE Table_create_execute(d, s,
             engine_insert(d.current, s.cols, s.values, 1), cb)

\* Table.create
Table_create(d, data, cb) ==
    Table_create_split(d, Table_split_col_value(data), cb)

\* Table.update from the UPDATE on.
Table_update_execute(d, s, values, d1, cb) ==
    Sent("UPDATE", values, d1, Table_validate2(d1, s.validated, cb), PyNone)

\* Table.update after _join_where_params.
Table_update_join(d, s, where, values, cb) ==
    IF values.raised # NoExc
    THEN Stopped(d, values.raised, <<>>)
    ELSE IF UnknownColumn(where)
    THEN [Stopped(AfterRefused(d), QueryError, <<>>) EXCEPT
             !.issued = <<[stmt |-> "UPDATE", params |-> values.rows]>>,
             !.log = <<"UPDATE">>]
    ELSE Table_update_execute(d, s, values.rows,
             Written(d, engine_update(d.current, s.cols, where, values.rows, 1)),
             cb)

\* Table.update after _split_col_value.
Table_update_split(d, s, where, cb) ==
    IF s.raised # NoExc
    THEN StoppedInSplit(d, s)
    ELSE Table_update_join(d, s, where,
             Table_join_where_params(s.values, where), cb)

\* Table.update
Table_update(d, data, where, cb) ==
    Table_update_split(d, Table_split_col_value(data), where, cb)

\* ------------------------------------------------- the callers of a Table
MaxRows == 3

\* The rows a caller writes: a name; a name and a size written with a
\* comma; an empty name, which does not validate; sizes without a name.
DataRows ==
    {[name |-> "A"], [name |-> "B", size |-> "2,"], [name |-> ""],
     [size |-> "1"], [size |-> "2,"]}

DataLists ==
    UNION {[1..n -> DataRows] : n \in 1..MaxRows}

\* The conditions a caller updates under.
Wheres ==
    {Eq("name", PyScalar("A")),
     Eq("name", PyList(<<"A", "B">>)),
     Eq("name", PyList(<<"A", "B", "C">>)),
     Eq("name", PyList(<<>>)),
     And(<<Eq("name", PyList(<<"B", "A">>)), Null("size")>>),
     And(<<>>),
     Eq("nope", PyScalar("A")),
     Or(<<Eq("name", PyScalar("A")), Null("nope")>>)}

\* The tables a caller finds: empty, or left by create([{name: B, size: 2,}])
\* and create([{name: A}]).
InitialTables ==
    {EmptyTable,
     [rows |-> {[id |-> 1, name |-> "B", size |-> "2.0"]}, seq |-> 1],
     [rows |-> {[id |-> 1, name |-> "B", size |-> "2.0"],
                [id |-> 2, name |-> "A", size |-> None]}, seq |-> 2]}

tableVars == <<nested_transactions, transaction_cnt, nested_rollback, con,
               table, last, trace, scope, thread, cm, cond, ret>>

Finish(op, data, where, cb, r) ==
    /\ db' = r.db
    /\ call' = [op |-> op, data |-> data, where |-> where, cb |-> cb,
                before |-> db, raised |-> r.raised, errors |-> r.errors,
                issued |-> r.issued, counts |-> r.counts, called |-> r.called,
                log |-> r.log,
                ret |-> r.ret, after |-> r.db, closed |-> "none",
                passed |-> PyScalar("*"), cols |-> PyScalar("*"),
                gets |-> 0, prev |-> <<>>]
    /\ UNCHANGED tableVars

\* persons.create(data, cb_validate)
Create ==
    /\ db # <<>>
    /\ call.op = "none"
    /\ \E data \in DataLists, cb \in Callbacks :
          Finish("create", data, And(<<>>), cb, Table_create(db, data, cb))

\* persons.update(data, where, cb_validate)
Update ==
    /\ db # <<>>
    /\ call.op = "none"
    /\ \E data \in DataLists, where \in Wheres, cb \in Callbacks :
          Finish("update", data, where, cb, Table_update(db, data, where, cb))

\* ------------------------------------------------ count, get and delete
\* The rows of a set in the order of their id.
RECURSIVE OrderById(_)
OrderById(rows) ==
    IF rows = {} THEN <<>>
    ELSE LET r == CHOOSE r \in rows : \A q \in rows : r.id <= q.id
         IN  <<r>> \o OrderById(rows \ {r})

\* SELECT names WHERE ... ORDER BY id
engine_select(t, where, values, names) ==
    LET hit == OrderById({row \in t.rows : Satisfies(row, where, values)})
    IN  [k \in 1..Len(hit) |-> [c \in names |-> hit[k][c]]]

\* DELETE WHERE ..., run once for every parameter set.
RECURSIVE engine_delete(_, _, _, _)
engine_delete(t, where, sets, i) ==
    IF i > Len(sets) THEN t
    ELSE engine_delete(
             [t EXCEPT !.rows = {row \in @ : ~Satisfies(row, where, sets[i])}],
             where, sets, i + 1)

\* The statement is refused: its WHERE clause names a column the table
\* does not have, or it has placeholders and no parameter set, or it selects
\* nothing, or it is a SELECT that SqliteDriver.execute hands to executemany
\* because it has several sets.
Refused(d, where, sets, select, names) ==
    \/ UnknownColumn(where)
    \/ Len(sets) = 0 /\ Width(where) > 0
    \/ select /\ names = {}
    \/ select /\ d.driver = "sqlite" /\ Len(sets) > 1

\* The sets the statement runs under: the one empty set when the caller
\* gave none.
RunSets(sets) == IF Len(sets) = 0 THEN <<<<>>>> ELSE sets

\* What execute gives back for the results of the runs: MysqlDriver gives
\* the list of them when there are several sets.
Shaped(d, sets, results) ==
    IF d.driver = "mysql" /\ Len(sets) > 1
    THEN [type |-> "list", items |-> results]
    ELSE results[1]

PyRows(rows) == [type |-> "rows", items |-> rows]

\* A count, get or delete that ends with exc before execute.
ReadStopped(d, exc, cols_) ==
    [db |-> d, raised |-> exc, errors |-> <<>>, issued |-> <<>>,
     counts |-> 0, called |-> 0, log |-> <<>>, ret |-> PyNone,
     cols |-> cols_]

\* dbh.execute(sql, where.params(), ret) of count, get and delete.
execute(d, stmt, where, sets, names, cols_) ==
    IF Refused(d, where, sets, stmt # "DELETE", names)
    THEN [ReadStopped(AfterRefused(d), QueryError, cols_)
             EXCEPT !.issued = <<[stmt |-> stmt, params |-> sets]>>,
                    !.log = <<stmt>>]
    ELSE [ReadStopped(d, NoExc, cols_) EXCEPT
             !.issued = <<[stmt |-> stmt, params |-> sets]>>,
             !.log = <<stmt>>,
             !.db = IF stmt = "DELETE"
                    THEN Written(d, engine_delete(d.current, where, RunSets(sets), 1))
                    ELSE d,
             !.ret = IF stmt = "DELETE" THEN PyNone
                     ELSE Shaped(d, sets,
                            [i \in 1..Len(RunSets(sets)) |->
                               IF stmt = "COUNT"
                               THEN PyInt(engine_count(d.current, where,
                                                       RunSets(sets)[i]))
                               ELSE PyRows(engine_select(d.current, where,
                                              RunSets(sets)[i], names))])]

\* where.params() evaluated for the call of execute.
execute_where(d, stmt, where, values_where, names, cols_) ==
    IF values_where.raised # NoExc
    THEN ReadStopped(d, values_where.raised, cols_)
    ELSE execute(d, stmt, where, values_where.rows, names, cols_)

\* Table.count
Table_count(d, where) ==
    IF Table_validate_where(where) # NoExc
    THEN ReadStopped(d, ColumnError, PyScalar("*"))
    ELSE execute_where(d, "COUNT", where, params(where), {"id"}, PyScalar("*"))

\* Table.delete
Table_delete(d, where) ==
    IF Table_validate_where(where) # NoExc
    THEN ReadStopped(d, ColumnError, PyScalar("*"))
    ELSE execute_where(d, "DELETE", where, params(where), {"id"}, PyScalar("*"))

\* Table.get: the loop over cols, from place i on. A name that is neither
\* id nor a declared column ends the call; the others are replaced in the
\* list by their quoted form.
RECURSIVE Table_get_loop(_, _)
Table_get_loop(list, i) ==
    IF i > Len(list) THEN [raised |-> NoExc, list |-> list]
    ELSE IF list[i] # "id" /\ list[i] \notin DOMAIN columns
    THEN [raised |-> ColumnError, list |-> list]
    ELSE Table_get_loop([list EXCEPT ![i] = quote_name[list[i]]], i + 1)

\* The columns of the table a list of quoted names selects.
Selected(list) ==
    {c \in {"id", "name", "size"} : \E k \in 1..Len(list) : list[k] = quote_name[c]}

\* Table.get after the loop over cols: cols_ is the caller's object as the
\* loop left it.
Table_get_execute(d, where, quoted, cols_) ==
    IF quoted.raised # NoExc
    THEN ReadStopped(d, quoted.raised, cols_)
    ELSE execute_where(d, "SELECT", where, params(where),
                       Selected(quoted.list), cols_)

\* Table.get after _validate_where: "*" selects every column, a str is put
\* into a new list, a list is worked on in place.
Table_get_cols(d, where, cols_) ==
    IF cols_ = PyScalar("*")
    THEN execute_where(d, "SELECT", where, params(where),
                       {"id", "name", "size"}, cols_)
    ELSE IF IsList(cols_)
    THEN Table_get_execute(d, where, Table_get_loop(cols_.list, 1),
                           PyList(Table_get_loop(cols_.list, 1).list))
    ELSE Table_get_execute(d, where, Table_get_loop(<<cols_.scalar>>, 1), cols_)

\* Table.get(where, ret="rows", cols=cols_)
Table_get(d, where, cols_) ==
    IF Table_validate_where(where) # NoExc
    THEN ReadStopped(d, ColumnError, cols_)
    ELSE Table_get_cols(d, where, cols_)

\* The column projections a caller asks for.
GetCols ==
    {PyScalar("*"), PyScalar("size"), PyList(<<"size", "id">>),
     PyList(<<"id">>), PyList(<<"name", "nope">>), PyList(<<>>)}

\* What a count, get or delete leaves in the record of the call.
FinishRead(op, where, cols_, r) ==
    /\ db' = r.db
    /\ call' = [op |-> op, data |-> <<>>, where |-> where, cb |-> "None",
                before |-> db, raised |-> r.raised, errors |-> r.errors,
                issued |-> r.issued, counts |-> r.counts, called |-> r.called,
                log |-> r.log,
                ret |-> r.ret, after |-> r.db, closed |-> "none",
                passed |-> cols_, cols |-> r.cols,
                gets |-> IF op = "get" THEN call.gets + 1 ELSE 0,
                prev |-> IF op = "get" /\ call.op = "get"
                         THEN <<[passed |-> call.passed, before |-> call.before,
                                 raised |-> call.raised, ret |-> call.ret]>>
                         ELSE <<>>]
    /\ UNCHANGED tableVars

\* persons.count(where)
Count ==
    /\ db # <<>>
    /\ call.op = "none"
    /\ \E where \in Wheres : FinishRead("count", where, PyScalar("*"), Table_count(db, where))

\* persons.delete(where)
Delete ==
    /\ db # <<>>
    /\ call.op = "none"
    /\ \E where \in Wheres : FinishRead("delete", where, PyScalar("*"), Table_delete(db, where))

\* persons.get(where, cols=cols): the first call with a projection of the
\* caller.
Get ==
    /\ db # <<>>
    /\ call.op = "none"
    /\ \E where \in Wheres, cols_ \in GetCols :
          FinishRead("get", where, cols_, Table_get(db, where, cols_))

\* persons.get(where, cols=cols) once more, with the object the caller
\* passed to the first call.
GetAgain ==
    /\ db # <<>>
    /\ call.op = "get"
    /\ call.gets = 1
    /\ call.closed = "none"
    /\ FinishRead("get", call.where, call.cols,
                  Table_get(db, call.where, call.cols))

\* dbh.start_transaction() of the caller, before the call on the table.
TableBegin ==
    /\ db # <<>>
    /\ call.op = "none"
    /\ ~db.in_transaction
    /\ db' = [db EXCEPT !.in_transaction = TRUE]
    /\ UNCHANGED call
    /\ UNCHANGED tableVars

\* dbh.commit() of the caller.
TableCommit ==
    /\ db # <<>>
    /\ db.in_transaction
    /\ db' = [db EXCEPT !.committed = db.current, !.in_transaction = FALSE]
    /\ call' = [call EXCEPT !.closed = IF call.op = "none" THEN @ ELSE "commit"]
    /\ UNCHANGED tableVars

\* dbh.rollback() of the caller.
TableRollback ==
    /\ db # <<>>
    /\ db.in_transaction
    /\ db' = [db EXCEPT !.current = db.committed, !.in_transaction = FALSE]
    /\ call' = [call EXCEPT !.closed = IF call.op = "none" THEN @ ELSE "rollback"]
    /\ UNCHANGED tableVars

InitTable ==
    /\ nested_transactions = FALSE
    /\ InitTransactionState
    /\ con = [in_transaction |-> FALSE, pending |-> {}]
    /\ table = {}
    /\ scope = [open |-> FALSE, rollback |-> FALSE, closed |-> FALSE,
                depth |-> 0, balanced |-> TRUE]
    /\ last = [op |-> "new", before |-> World, inside |-> scope,
               issued |-> <<>>, raised |-> NoExc]
    /\ trace = <<>>
    /\ thread = <<>>
    /\ cm = NoCM
    /\ cond = <<>>
    /\ ret = <<>>
    /\ \E t \in InitialTables, driver \in Drivers :
          db = [committed |-> t, current |-> t, in_transaction |-> FALSE,
                driver |-> driver]
    /\ call = NoCall

NextTable ==
    \/ Create \/ Update \/ Count \/ Delete \/ Get \/ GetAgain
    \/ TableBegin \/ TableCommit \/ TableRollback

SpecTable == InitTable /\ [][NextTable]_vars

\* --------------------------------------------- a predicate and its users
TypeError == "TypeError"

PyBool(b) == [type |-> "bool", items |-> <<b>>]

\* Table.exists: count(where) > 0, which a list of counts does not support.
Table_exists_count(r) ==
    IF r.raised # NoExc THEN r
    ELSE IF r.ret.type = "list" THEN [r EXCEPT !.raised = TypeError, !.ret = PyNone]
    ELSE [r EXCEPT !.ret = PyBool(r.ret.items[1] > 0)]

Table_exists(d, where) == Table_exists_count(Table_count(d, where))

\* The predicate after a call of count, exists, get, update or delete that
\* ended with r: the call has asked it for its parameter sets unless it
\* ended before, with the error of the rows or of a column.
Table_where_after(where, r) ==
    IF r.issued = <<>> /\ r.raised \in {ColumnError, ValidationError,
                                         SameColumnsError, NoColumnsError}
    THEN where
    ELSE params_heap(where).node

\* What a call on the table with the predicate cond leaves.
FinishUse(op, data, cb, cols_, r) ==
    /\ db' = r.db
    /\ call' = [op |-> op, data |-> data, where |-> cond, cb |-> cb,
                before |-> db, raised |-> r.raised, errors |-> r.errors,
                issued |-> r.issued, counts |-> r.counts, called |-> r.called,
                log |-> r.log, ret |-> r.ret, after |-> r.db, closed |-> "none",
                passed |-> cols_, cols |-> cols_, gets |-> 0, prev |-> <<>>]
    /\ cond' = Table_where_after(cond, r)
    /\ UNCHANGED <<nested_transactions, transaction_cnt, nested_rollback, con,
                   table, last, trace, scope, thread, cm, ret>>

\* persons.count(cond)
CountWhere ==
    /\ call.op = "none"
    /\ FinishUse("count", <<>>, "None", PyScalar("*"), Table_count(db, cond))

\* persons.exists(cond)
ExistsWhere ==
    /\ call.op = "none"
    /\ FinishUse("exists", <<>>, "None", PyScalar("*"), Table_exists(db, cond))

\* persons.get(cond)
GetWhere ==
    /\ call.op = "none"
    /\ FinishUse("get", <<>>, "None", PyScalar("*"),
                 Table_get(db, cond, PyScalar("*")))

\* persons.delete(cond)
DeleteWhere ==
    /\ call.op = "none"
    /\ FinishUse("delete", <<>>, "None", PyScalar("*"), Table_delete(db, cond))

\* The rows a caller updates to under cond: a name, an empty name, which
\* does not validate, and two sizes.
UpdateData ==
    {<<[name |-> "A"]>>, <<[name |-> ""]>>, <<[size |-> "1"], [size |-> "2,"]>>}

\* persons.update(data, cond, cb_validate)
UpdateWhere ==
    /\ call.op = "none"
    /\ \E data \in UpdateData, cb \in Callbacks :
          FinishUse("update", data, cb, PyScalar("*"),
                    Table_update(db, data, cond, cb))

InitPredicate ==
    /\ nested_transactions = FALSE
    /\ InitTransactionState
    /\ con = [in_transaction |-> FALSE, pending |-> {}]
    /\ table = {}
    /\ scope = [open |-> FALSE, rollback |-> FALSE, closed |-> FALSE,
                depth |-> 0, balanced |-> TRUE]
    /\ last = [op |-> "new", before |-> World, inside |-> scope,
               issued |-> <<>>, raised |-> NoExc]
    /\ trace = <<>>
    /\ thread = <<>>
    /\ cm = NoCM
    /\ cond \in Wheres
    /\ ret = NoRet
    /\ \E t \in InitialTables, driver \in Drivers :
          db = [committed |-> t, current |-> t, in_transaction |-> FALSE,
                driver |-> driver]
    /\ call = NoCall

NextPredicate ==
    \/ Serialize \/ Params \/ Cols
    \/ CountWhere \/ ExistsWhere \/ GetWhere \/ DeleteWhere \/ UpdateWhere

SpecPredicate == InitPredicate /\ [][NextPredicate]_vars

\* ------------------------------------------------- claims on Table writes
\* The errors field-level validation finds in row i of the call's data.
FieldErrors(i) == Table_validate_data(call.data[i]).error

\* The columns row i of the call's data validates to.
ValidatedColumns(i) == DOMAIN Table_validate_data(call.data[i]).validated

\* The rows the call has added to the table.
WrittenRows == call.after.current.rows \ call.before.current.rows

\* C17: the parameter sets update sends have max(len(dataRows),
\* len(whereRows)) rows; row i is data row i (or the last one) followed by
\* predicate row i (or the last one); one data row under a single-valued
\* predicate gives one set, so one execution.
C17_UpdateParams ==
    (call.op = "update" /\ call.issued # <<>>) =>
        LET dataRows == Table_split_col_value(call.data).values
            whereRows == params(call.where).rows
            N == IF Len(dataRows) > Len(whereRows)
                 THEN Len(dataRows) ELSE Len(whereRows)
            sent == call.issued[1].params
        IN  /\ Len(call.issued) = 1
            /\ Len(sent) = N
            /\ \A i \in 1..N :
                   sent[i] = RowOrLast(dataRows, i) \o RowOrLast(whereRows, i)
            /\ (Len(call.data) = 1 /\ Len(whereRows) = 1) => Len(sent) = 1

\* Two data rows under a predicate with three values.
C17_Witness ==
    /\ call.op = "update"
    /\ call.issued # <<>>
    /\ Len(call.data) = 2
    /\ call.data[1] # call.data[2]
    /\ Len(params(call.where).rows) = 3
    /\ Len(call.issued[1].params) = 3

\* C18: when a row of create or update fails field-level validation, the
\* call fails with ValidationError carrying one error mapping per row, the
\* empty one for the rows that validated, nothing is sent to the engine and
\* the table is as before.
C18_ValidationFirst ==
    (call.op \in {"create", "update"}
        /\ \E i \in 1..Len(call.data) : DOMAIN FieldErrors(i) # {}) =>
        /\ call.raised = ValidationError
        /\ Len(call.errors) = Len(call.data)
        /\ \A i \in 1..Len(call.data) : call.errors[i] = FieldErrors(i)
        /\ call.issued = <<>>
        /\ call.counts = 0
        /\ call.after = call.before

\* C18 for the calls in which no row that validates lacks a column of the
\* first row that validates.
C18_ValidationFirstSameColumns ==
    (call.op \in {"create", "update"}
        /\ (\E i \in 1..Len(call.data) : DOMAIN FieldErrors(i) # {})
        /\ \A i, j \in 1..Len(call.data) :
               (DOMAIN FieldErrors(i) = {} /\ DOMAIN FieldErrors(j) = {}) =>
                   ValidatedColumns(i) = ValidatedColumns(j)) =>
        /\ call.raised = ValidationError
        /\ Len(call.errors) = Len(call.data)
        /\ \A i \in 1..Len(call.data) : call.errors[i] = FieldErrors(i)
        /\ call.issued = <<>>
        /\ call.counts = 0
        /\ call.after = call.before

\* C19: create with rows that validate, but not all to the columns of the
\* first row, fails with the 'same columns' Error and sends nothing to the
\* engine.
C19_SameColumns ==
    (call.op = "create"
        /\ (\A i \in 1..Len(call.data) : DOMAIN FieldErrors(i) = {})
        /\ \E i \in 1..Len(call.data) :
               ValidatedColumns(i) # ValidatedColumns(1)) =>
        /\ call.raised = SameColumnsError
        /\ call.issued = <<>>
        /\ call.after = call.before

\* C19 for the later rows that lack a column of the first row.
C19_LackingColumn ==
    (call.op = "create"
        /\ (\A i \in 1..Len(call.data) : DOMAIN FieldErrors(i) = {})
        /\ ValidatedColumns(1) # {}
        /\ \E i \in 1..Len(call.data) :
               ~(ValidatedColumns(1) \subseteq ValidatedColumns(i))) =>
        /\ call.raised = SameColumnsError
        /\ call.issued = <<>>
        /\ call.after = call.before

\* C20: when create passes the validation of its rows and then fails with
\* ValidationError, all its rows have been written; outside a transaction
\* they stay in the table, and after the rollback of the transaction the
\* caller had opened none of them is left.
C20_PostWrite ==
    (call.op = "create"
        /\ Table_split_col_value(call.data).raised = NoExc
        /\ call.raised = ValidationError) =>
        /\ call.issued # <<>>
        /\ Cardinality(WrittenRows) = Len(call.data)
        /\ ~call.before.in_transaction =>
              (WrittenRows \subseteq db.committed.rows /\ db = call.after)
        /\ call.closed = "rollback" =>
              /\ WrittenRows \cap db.committed.rows = {}
              /\ WrittenRows \cap db.current.rows = {}
              /\ db.committed = call.before.committed

\* A create flagged for uniqueness inside a transaction, rolled back.
C20_Witness ==
    /\ call.op = "create"
    /\ call.raised = ValidationError
    /\ \E i \in 1..Len(call.errors) :
           "name" \in DOMAIN call.errors[i] /\ call.errors[i]["name"] = "NOT_UNIQUE"
    /\ Len(call.data) = 2
    /\ call.closed = "rollback"
    /\ call.before.current.rows # {}

\* The rows of the call's data as _split_col_value validated them.
Submitted == Table_split_col_value(call.data).validated

\* Row i of the call carries a value for the unique column c that more than
\* one row of the table has after the call's statement.
Duplicated(i, c) ==
    /\ "unique" \in columns[c]
    /\ c \in DOMAIN Submitted[i]
    /\ Cardinality({r \in call.after.current.rows : r[c] = Submitted[i][c]}) > 1

\* C21: after create or update has sent its statement, row i is flagged
\* NOT_UNIQUE on column c exactly when c is unique, the row has a value for c
\* and more than one row of the table has that value; without a
\* post-validator the call raises ValidationError exactly when a row is
\* flagged.
C21_NotUnique ==
    (call.op \in {"create", "update"} /\ call.issued # <<>>) =>
        /\ \A i \in 1..Len(Submitted), c \in DOMAIN columns :
               Duplicated(i, c) <=>
                   /\ call.raised = ValidationError
                   /\ c \in DOMAIN call.errors[i]
                   /\ call.errors[i][c] = "NOT_UNIQUE"
        /\ call.cb = "None" =>
               (call.raised = ValidationError <=>
                   \E i \in 1..Len(Submitted), c \in DOMAIN columns :
                       Duplicated(i, c))

\* An update without post-validator that gave two rows the same name.
C21_Witness ==
    /\ call.op = "update"
    /\ call.cb = "None"
    /\ call.issued # <<>>
    /\ call.raised = ValidationError
    /\ Duplicated(1, "name")
    /\ Cardinality(call.before.current.rows) = 2
    /\ \A r \in call.before.current.rows :
           Cardinality({q \in call.before.current.rows : q.name = r.name}) = 1

\* create is given rows that all validate, to the same columns, and no
\* post-validator.
SameColumnRows ==
    /\ call.op = "create"
    /\ call.cb = "None"
    /\ \A i \in 1..Len(call.data) :
           DOMAIN FieldErrors(i) = {} /\ ValidatedColumns(i) = ValidatedColumns(1)

\* What create gave back is what the claim says: the id of the one new row,
\* or nothing for several rows.
ReturnsIdOrNothing ==
    /\ Len(call.data) = 1 =>
           \E r \in WrittenRows : WrittenRows = {r} /\ call.ret = PyInt(r.id)
    /\ Len(call.data) >= 2 => call.ret = PyNone

\* C22: create with one row returns the id the engine gave the new row;
\* create with two or more rows of the same columns succeeds (unless a
\* unique value is duplicated) and returns nothing, neither an id nor a
\* list of ids.
C22_CreateReturn ==
    SameColumnRows =>
        /\ call.issued # <<>>
        /\ call.raised = NoExc <=>
               ~\E i \in 1..Len(Submitted), c \in DOMAIN columns : Duplicated(i, c)
        /\ call.raised = NoExc => ReturnsIdOrNothing

\* C22 on a handle of the SqliteDriver, and for one row on either driver.
C22_CreateReturnSqliteOrOneRow ==
    (SameColumnRows /\ (db.driver = "sqlite" \/ Len(call.data) = 1)) =>
        /\ call.issued # <<>>
        /\ call.raised = NoExc <=>
               ~\E i \in 1..Len(Submitted), c \in DOMAIN columns : Duplicated(i, c)
        /\ call.raised = NoExc => ReturnsIdOrNothing

\* The predicate of the call names a column that is neither id nor a
\* declared column.
InvalidWhere ==
    \E k \in 1..Len(cols(call.where)) :
        cols(call.where)[k] # "id" /\ cols(call.where)[k] \notin DOMAIN columns

\* The call failed with ColumnError before anything was sent.
RefusedWithColumnError ==
    /\ call.raised = ColumnError
    /\ call.issued = <<>>
    /\ call.counts = 0
    /\ call.after = call.before
    /\ db = call.before

\* C23 as stated: count, get, update and delete under a predicate with an
\* unknown column fail with ColumnError, nothing is sent to the engine and
\* the table is unchanged.
C23_ColumnError ==
    (call.op \in {"count", "get", "update", "delete"}
        /\ call.closed = "none" /\ InvalidWhere) =>
        RefusedWithColumnError

\* C23: count, get and delete under a predicate with an unknown column, and
\* update under one when its rows have passed _split_col_value, fail with
\* ColumnError with nothing sent and the table unchanged; an update whose
\* rows do not pass fails with the error of its rows, again with nothing
\* sent and the table unchanged.
C23_ColumnErrorAfterRows ==
    (call.op \in {"count", "get", "update", "delete"}
        /\ call.closed = "none" /\ InvalidWhere) =>
        IF call.op = "update" /\ Table_split_col_value(call.data).raised # NoExc
        THEN /\ call.raised = Table_split_col_value(call.data).raised
             /\ call.issued = <<>>
             /\ call.counts = 0
             /\ call.after = call.before
             /\ db = call.before
        ELSE RefusedWithColumnError

\* A delete refused for the column of an inner condition, on a table with
\* rows.
C23_Witness ==
    /\ call.op = "delete"
    /\ InvalidWhere
    /\ IsCombinator(call.where)
    /\ call.raised = ColumnError
    /\ call.before.current.rows # {}
    /\ db.current.rows = call.before.current.rows

\* get has been called a second time with the object passed to the first
\* call, on the same rows.
SecondGet ==
    /\ call.op = "get"
    /\ call.gets = 2
    /\ call.closed = "none"
    /\ call.before.current = call.prev[1].before.current

\* The two calls of get took the same argument and ended the same way, and
\* the second left the argument as it was.
SameOutcome ==
    /\ call.passed = call.prev[1].passed
    /\ call.cols = call.passed
    /\ call.raised = call.prev[1].raised
    /\ call.ret = call.prev[1].ret

\* C30: get leaves its arguments unchanged: two calls with the same list of
\* columns on the same table state end the same way.
C30_GetTwice ==
    SecondGet => SameOutcome

\* C30 for a projection given as "*" or as a str, which get does not work
\* on in place.
C30_GetTwiceStr ==
    (SecondGet /\ ~IsList(call.prev[1].passed)) => SameOutcome

\* The places of the log of the call at which the post-validator was called.
CallbackAt == {k \in 1..Len(call.log) : call.log[k] = "cb_validate"}

\* A row of the call is flagged by the uniqueness check.
SomeDuplicated ==
    \E i \in 1..Len(Submitted), c \in DOMAIN columns : Duplicated(i, c)

\* C28: in create and update the post-validator is called at most once, only
\* after the statement has been executed and only when the uniqueness check
\* has flagged no row; when it has flagged one, the call raises
\* ValidationError and the post-validator is not called.
C28_PostValidator ==
    (call.op \in {"create", "update"}) =>
        /\ Cardinality(CallbackAt) <= 1
        /\ Cardinality(CallbackAt) = call.called
        /\ \A k \in CallbackAt :
               /\ call.cb # "None"
               /\ call.issued # <<>>
               /\ \E j \in 1..(k - 1) : call.log[j] \in {"INSERT", "UPDATE"}
               /\ \A j \in 1..Len(call.log) : call.log[j] = "COUNT" => j < k
               /\ ~SomeDuplicated
        /\ (call.issued # <<>> /\ call.raised # QueryError /\ SomeDuplicated) =>
               (call.raised = ValidationError /\ CallbackAt = {})

\* A create whose post-validator was called after the INSERT and the
\* uniqueness counts and rejected a row.
C28_Witness ==
    /\ call.op = "create"
    /\ call.cb = "rejects_first"
    /\ call.log = <<"INSERT", "COUNT", "COUNT", "cb_validate">>
    /\ call.raised = ValidationError
    /\ ~SomeDuplicated

\* C24: a call of serialize, params or cols, and a call of count, exists,
\* get, update or delete with the tree as its predicate, leaves the tree as
\* it was; a call of serialize, params or cols that repeats the call before
\* it returns what that one returned.
C24_TreeUnchanged ==
    [][/\ cond' = cond
       /\ (ret'.op = ret.op /\ ret'.nested = ret.nested /\ ret'.quote = ret.quote
              /\ ret'.placeholder = ret.placeholder) => ret' = ret
       /\ ret'.op = "params" => ret'.params = params(cond)]_vars

\* An update has been run under a combinator with a multi-valued comparison,
\* after params had been asked of it.
C24_Witness ==
    /\ call.op = "update"
    /\ call.issued # <<>>
    /\ call.where = cond
    /\ IsCombinator(cond)
    /\ Len(params(cond).rows) = 2
    /\ ret.op = "params"


\* ------------------------------------- claims on starts after earlier scopes
NoFailedExecute == \A i \in 1..Len(trace) : trace[i] # "execute_failed"

\* A start called when every scope the caller opened before has been closed
\* by a commit or a rollback of the caller, on a handle no statement failed on.
OutermostStart ==
    /\ last.op = "start"
    /\ last.inside.balanced
    /\ last.inside.depth = 0
    /\ NoFailedExecute

\* C25: in nested mode every outermost start begins a new engine
\* transaction, whatever happened in the earlier scopes, an earlier outermost
\* commit vetoed by the sticky rollback included.
C25_OutermostStart ==
    OutermostStart =>
        /\ last.issued = <<"BEGIN">>
        /\ last.raised = NoExc
        /\ con.in_transaction

\* C25 on the handles whose earlier outermost scopes all ended without a
\* vetoed commit: transaction_cnt is 0 when the start is called.
C25_OutermostStartAtDepthZero ==
    (OutermostStart /\ last.before.transaction_cnt = 0) =>
        /\ last.issued = <<"BEGIN">>
        /\ last.raised = NoExc
        /\ con.in_transaction

\* C26: an execute called while no transaction is open whose statement the
\* engine rejects closes the transaction it opened before the QueryError
\* reaches the caller: afterwards no engine transaction is open,
\* transaction_cnt has the value it had before the call, and a following
\* start_transaction succeeds at its first attempt.
C26_FailedExecute ==
    (last.op = "execute_failed" /\ last.raised = QueryError
        /\ ~last.before.in_transaction) =>
          /\ ~con.in_transaction
          /\ transaction_cnt = last.before.transaction_cnt
          /\ MysqlDriver_start_transaction(World, FALSE).raised = NoExc

\* --------------------------------------- claims on the first attempt of start
\* C27: in timeout mode start_transaction attempts the engine begin at least
\* once for every timeout value, 0 included, and every start that fails is
\* reported as the library's Error carrying the message of the engine.
C27_AlwaysAttempts ==
    \A c \in Callers :
        LET t == thread[c]
        IN  t.pc = "raised" =>
               /\ t.exc_buf \in {Busy, OtherError}
               /\ t.result.exc = "Error"
               /\ t.result.msg = t.exc_buf

\* C27 on the calls that made an attempt before the timeout had passed.
C27_AttemptedStartsReportError ==
    \A c \in Callers :
        LET t == thread[c]
        IN  (t.pc = "raised" /\ t.exc_buf # "None") =>
               /\ t.exc_buf \in {Busy, OtherError}
               /\ t.result.exc = "Error"
               /\ t.result.msg = t.exc_buf
               /\ t.result.named = <<t.timeout>>
====
